---------------------------- MODULE Spec2Model ----------------------------
(***************************************************************************)
(* A model of the minesweeper repository: the board (src/src/board.rs),    *)
(* the sampling estimator with its naive backtracking frontier             *)
(* (src/src/ai.rs) and the generic constraint solver                       *)
(* (src/src/constraint.rs).                                                *)
(*                                                                         *)
(* Points are pairs <<p0, p1>> (Point(p0, p1)); Vec is a sequence, indexed *)
(* from 1 where Rust indexes from 0; Option<T> is a record                 *)
(* [some, val]; HashMap is a function whose DOMAIN is the key set.         *)
(***************************************************************************)
EXTENDS Integers, Sequences, FiniteSets, TLC

VARIABLES
    \* ---- src/src/ai.rs: NaiveAI::get_monte_carlo_probabilities
    board,            \* the &Board the estimator reads
    overflow_checks,  \* TRUE: usize overflow panics (debug build); FALSE: it wraps
    rollout_i,        \* the loop variable i of "for i in 0..rollouts"
    counts,           \* counts: HashMap<Point, usize>
    border_points,    \* border_points: Vec<Point>
    frontier,         \* the ConstraintFrontier of the rollout in flight
    points,           \* the shuffled frontier handed to backtracking_search
    stack,            \* the activations of backtracking_search that are in their for loop
    ret,              \* the value the last finished activation returned
    pc,               \* position of the estimator
    result,           \* the Vec<(Point, f32)> returned, as a map point -> <<count, rollouts>>
    \* ---- src/src/constraint.rs: ConstraintSolver
    variables,            \* the variables handed to ConstraintSolver::new
    constraints,          \* the constraints handed to ConstraintSolver::new
    variable_lookup,      \* HashMap<S, Variable<S,T>>
    variable_to_constraints, \* HashMap<S, Vec<Arc<dyn Constraint>>>
    global_counts,        \* HashMap<T, usize>
    selection_strategy,   \* "Random" or "Degree"
    remaining_points,     \* backtrack(): the key order of variable_lookup
    available_indices,    \* HashSet<usize>
    sstack,               \* the activations of _backtrack that are in their for loop
    sret,                 \* the value the last finished activation of _backtrack returned
    spc,                  \* position of the solver
    runs,                 \* what the backtrack() calls made so far returned
    \* ---- src/src/ai.rs: NaiveAI and the clock it reads
    now,              \* the instant time::Instant::now() returns, in milliseconds
    move_queue,       \* NaiveAI.move_queue: Vec<ActionType>
    move_delay,       \* NaiveAI.move_delay
    start,            \* generate_move: let start = time::Instant::now()
    elapsed,          \* generate_move: let elapsed = now - start
    slept,            \* the durations handed to thread::sleep during the call
    surfaced,         \* the ActionType the last generate_move returned
    returned_at,      \* the instant at which it returned
    apc,              \* position of the agent
    calls,            \* the generate_move calls made so far
    \* ---- src/src/board.rs: one call of a function of BoardSize or Board
    args,             \* the function called and its arguments
    out,              \* <<>> before the call has returned, then <<the value returned>>
    \* ---- src/src/lib.rs: ai_game_loop
    moves,            \* the number of actions of "moves" the for loop has yet to apply
    mines_hit,        \* let mut mines
    mine_revealed,    \* whether an action of the batch in hand returned more than 0
    lpc               \* position of the loop

mc_vars == <<board, overflow_checks, rollout_i, counts, border_points, frontier,
             points, stack, ret, pc, result>>
solver_vars == <<variables, constraints, variable_lookup,
                 variable_to_constraints, global_counts, selection_strategy,
                 remaining_points, available_indices, sstack, sret, spc, runs>>
agent_vars == <<now, move_queue, move_delay, start, elapsed, slept, surfaced,
                returned_at, apc, calls>>
fn_vars == <<args, out>>
loop_vars == <<moves, mines_hit, mine_revealed, lpc>>
vars == <<mc_vars, solver_vars, agent_vars, fn_vars, loop_vars>>

---------------------------------------------------------------------------
(* Bounds of the model.                                                    *)

\* side of the (square) boards the estimator is run on
Side == 3
\* most mines laid on a board
MaxMines == 2
\* most flagged cells of a board snapshot
MaxFlags == 1

\* most variables handed to a ConstraintSolver
MaxVars == 2
\* largest mine or empty budget of a constraint handed to a ConstraintSolver
MaxBudget == 2
\* most backtrack() runs made on solvers built from the same input
MaxRuns == 2

\* most actions in a batch of moves handed to ai_game_loop
MaxBatch == 2

\* the clock runs from 0 to this instant
MaxTime == 2

\* move_delay, in instants of the clock, is at most this
MaxDelay == 2

\* generate_move is called at most this often
MaxCalls == 2

\* largest width and largest height of a BoardSize handed to a function of
\* the board that is called on its own
MaxWidth == 3
MaxHeight == 2

\* most points asked of sample_points, and its largest disallowed_radius
MaxSample == 2
MaxRadius == 1

\* let rollouts = 10;
rollouts == 10

\* usize arithmetic wraps modulo this when overflow checks are off. The
\* machine's modulus is 2^64; every quantity of the model is far below
\* either, so the scaled modulus wraps in the same cases.
UsizeModulus == 2^16

---------------------------------------------------------------------------
(* Generic helpers.                                                        *)

None == [some |-> FALSE, val |-> <<>>]
Some(x) == [some |-> TRUE, val |-> x]

Range(s) == {s[i] : i \in DOMAIN s}

\* the permutations of the elements of a sequence without repetitions
Perms(s) ==
    {q \in [DOMAIN s -> Range(s)] : \A i, j \in DOMAIN s : i # j => q[i] # q[j]}

---------------------------------------------------------------------------
(* src/src/board.rs                                                        *)

\* impl Cell
create_empty(point) ==
    [content |-> "Empty", mined_neighbor_count |-> 0, knowledge |-> "Unknown",
     point |-> point]

\* toggle_flag with the arm for Known taken from the arm for Unknown
toggle_flag_of_known(cell) ==
    [cell EXCEPT !.knowledge = CASE cell.knowledge = "Known" -> "Flag"
                                 [] cell.knowledge = "Flag" -> "Unknown"
                                 [] cell.knowledge = "Unknown" -> "Flag"]

toggle_flag(cell) ==
    [cell EXCEPT !.knowledge = CASE cell.knowledge = "Known" -> "Known"
                                 [] cell.knowledge = "Flag" -> "Unknown"
                                 [] cell.knowledge = "Unknown" -> "Flag"]

\* is_assumed_mine with a flag counted on a mined cell only
is_assumed_mine_when_mined(cell) ==
    CASE cell.knowledge = "Unknown" -> FALSE
      [] cell.knowledge = "Flag" -> cell.content = "Mine"
      [] cell.knowledge = "Known" /\ cell.content = "Mine" -> TRUE
      [] OTHER -> FALSE

is_assumed_mine(cell) ==
    CASE cell.knowledge = "Unknown" -> FALSE
      [] cell.knowledge = "Flag" -> TRUE
      [] cell.knowledge = "Known" /\ cell.content = "Mine" -> TRUE
      [] OTHER -> FALSE

is_known_unmined(cell) == cell.knowledge = "Known" /\ cell.content = "Empty"

\* impl Point: the l-inf norm of the difference
abs(n) == IF n < 0 THEN -n ELSE n
distance(point, other) ==
    LET d0 == abs(point[1] - other[1])
        d1 == abs(point[2] - other[2])
    IN IF d0 > d1 THEN d0 ELSE d1

\* impl BoardSize
area(size) == size.width * size.height

\* point_from_integer dividing by the height
point_from_integer_by_height(size, x) ==
    IF x >= area(size) THEN None
    ELSE Some(<<x \div size.height, x % size.height>>)

point_from_integer(size, x) ==
    IF x >= area(size) THEN None
    ELSE Some(<<x \div size.width, x % size.width>>)

size_points(size) ==
    [i \in 1..area(size) |-> point_from_integer(size, i - 1).val]

integer_from_point(size, point) ==
    LET x == (point[1] * size.width) + (point[2] % size.width)
    IN IF x > area(size) THEN None ELSE Some(x)

point_is_in_bounds(size, point) == integer_from_point(size, point).some

\* possible.shuffle(..) puts the indices in any order; of a shuffled vector
\* filter and take(n) leave the first n of the points that pass the filter,
\* which are any n of them in any order (all of them if they are fewer)
RECURSIVE taken_of_shuffled(_, _)
taken_of_shuffled(passing, n) ==
    IF n = 0 \/ passing = {} THEN {<<>>}
    ELSE UNION {{<<point>> \o rest : rest \in taken_of_shuffled(passing \ {point}, n - 1)} :
                   point \in passing}

\* sample_points with the filter "disallowed.distance(x) >= disallowed_radius"
sample_points_at_radius(size, n, disallowed, disallowed_radius) ==
    LET passing == {point \in Range(size_points(size)) :
                       distance(disallowed, point) >= disallowed_radius}
    IN {IF Len(possible) = n THEN Some(possible) ELSE None :
           possible \in taken_of_shuffled(passing, n)}

\* the values sample_points may return
sample_points(size, n, disallowed, disallowed_radius) ==
    LET passing == {point \in Range(size_points(size)) :
                       distance(disallowed, point) > disallowed_radius}
    IN {IF Len(possible) = n THEN Some(possible) ELSE None :
           possible \in taken_of_shuffled(passing, n)}

\* impl Board

\* new_from_size with the test "mine_count >= size.area()"
new_from_size_rejects_full(size, mine_count) ==
    IF mine_count >= area(size) THEN None
    ELSE Some([size |-> size,
               field |-> [i \in 1..area(size) |->
                             create_empty(point_from_integer(size, i - 1).val)],
               mine_count |-> mine_count,
               initialized |-> FALSE])

new_from_size(size, mine_count) ==
    IF mine_count > area(size) THEN None
    ELSE Some([size |-> size,
               field |-> [i \in 1..area(size) |->
                             create_empty(point_from_integer(size, i - 1).val)],
               mine_count |-> mine_count,
               initialized |-> FALSE])

new_from_ints(width, height, mine_count) ==
    new_from_size([width |-> width, height |-> height], mine_count)

retrieve_cell(b, point) == b.field[integer_from_point(b.size, point).val + 1]

neighbor_offsets ==
    <<<<-1, -1>>, <<-1, 0>>, <<-1, 1>>, <<0, -1>>, <<0, 1>>, <<1, -1>>, <<1, 0>>, <<1, 1>>>>

neighbor_in_range(b, xy) ==
    xy[1] >= 0 /\ xy[1] < b.size.width /\ xy[2] >= 0 /\ xy[2] < b.size.height

neighbor_points(b, point) ==
    SelectSeq([k \in 1..8 |-> <<neighbor_offsets[k][1] + point[1],
                                neighbor_offsets[k][2] + point[2]>>],
              LAMBDA xy : neighbor_in_range(b, xy))

neighbor_cells_from_point(b, point) ==
    LET n == neighbor_points(b, point)
    IN [k \in DOMAIN n |-> retrieve_cell(b, n[k])]

count_cells(cells, Keep(_)) == Len(SelectSeq(cells, Keep))

has_unknown_neighbors(b, point) ==
    count_cells(neighbor_cells_from_point(b, point),
                LAMBDA c : c.knowledge # "Known") > 0

has_known_neighbors(b, point) ==
    count_cells(neighbor_cells_from_point(b, point),
                LAMBDA c : c.knowledge = "Known") > 0

count_assumed_mined_neighbors(b, point) ==
    count_cells(neighbor_cells_from_point(b, point), is_assumed_mine)

count_flagged_neighbors(b, point) ==
    count_cells(neighbor_cells_from_point(b, point),
                LAMBDA c : c.knowledge = "Flag")

count_unknown_neighbors(b, point) ==
    count_cells(neighbor_cells_from_point(b, point),
                LAMBDA c : c.knowledge = "Unknown")

\* Board::toggle_flag: self.retrieve_cell_mutable(point).toggle_flag()
board_toggle_flag(b, point) ==
    [b EXCEPT !.field[integer_from_point(b.size, point).val + 1] = toggle_flag(@)]

found_mines(b) == count_cells(b.field, is_assumed_mine)

remaining_mines(b) == b.mine_count - found_mines(b)

\* retrieve_cell and retrieve_cell_mutable panic: integer_from_point gave None
\* (.expect) or an index that is not in the field
retrieve_cell_panics(b, point) ==
    \/ ~integer_from_point(b.size, point).some
    \/ integer_from_point(b.size, point).val >= Len(b.field)

\* set_point_as_mined panics at the point or at one of its neighbours
set_point_as_mined_panics(b, point) ==
    \/ retrieve_cell_panics(b, point)
    \/ \E k \in DOMAIN neighbor_points(b, point) :
          retrieve_cell_panics(b, neighbor_points(b, point)[k])

\* set_point_as_mined that leaves mined_neighbor_count alone
set_point_as_mined_uncounted(b, point) ==
    [b EXCEPT !.field[integer_from_point(b.size, point).val + 1].content = "Mine"]

\* each neighbour in the list adds one to the cell it is stored in
set_point_as_mined(b, point) ==
    LET here == integer_from_point(b.size, point).val + 1
        near == neighbor_points(b, point)
        times(i) == Cardinality({k \in DOMAIN near :
                                    integer_from_point(b.size, near[k]).val + 1 = i})
    IN [b EXCEPT !.field =
           [i \in DOMAIN b.field |->
               LET c0 == b.field[i]
                   c1 == IF i = here THEN [c0 EXCEPT !.content = "Mine"] ELSE c0
               IN [c1 EXCEPT !.mined_neighbor_count = c1.mined_neighbor_count + times(i)]]]

RECURSIVE set_points_as_mined(_, _)
set_points_as_mined(b, mines) ==
    IF mines = <<>> THEN b
    ELSE set_points_as_mined(set_point_as_mined(b, Head(mines)), Tail(mines))

new_with_mines(size, mines) ==
    IF \E k \in DOMAIN mines : ~point_is_in_bounds(size, mines[k]) THEN None
    ELSE LET made == new_from_size(size, Len(mines))
         IN IF ~made.some THEN None
            ELSE Some(set_points_as_mined([made.val EXCEPT !.initialized = TRUE], mines))

panic_rem == "panicked: attempt to calculate the remainder with a divisor of zero"
panic_bad_point == "panicked: Bad point for retrieve_cell_mutable"
panic_index == "panicked: index out of bounds"

\* how a call ends: with a value, or with a panic
Returned(x) == [panic |-> "", val |-> x]
Panicked(message) == [panic |-> message, val |-> <<>>]

\* the cells set_point_as_mined retrieves, in the order it retrieves them
set_point_as_mined_touches(b, point) == <<point>> \o neighbor_points(b, point)

RECURSIVE touches_of(_, _)
touches_of(b, mines) ==
    IF mines = <<>> THEN <<>>
    ELSE set_point_as_mined_touches(b, Head(mines)) \o touches_of(b, Tail(mines))

\* what a call of Board::new_with_mines(size, mines) comes to: None, Some(board)
\* or the panic of the first retrieval that fails
new_with_mines_call(size, mines) ==
    IF mines # <<>> /\ size.width = 0 THEN Panicked(panic_rem)
    ELSE IF \E k \in DOMAIN mines : ~point_is_in_bounds(size, mines[k])
    THEN Returned(None)
    ELSE LET made == new_from_size(size, Len(mines))
         IN IF ~made.some THEN Returned(None)
            ELSE LET touched == touches_of(made.val, mines)
                     failing == {k \in DOMAIN touched : retrieve_cell_panics(made.val, touched[k])}
                 IN IF failing = {} THEN Returned(new_with_mines(size, mines))
                    ELSE LET first == CHOOSE k \in failing : \A j \in failing : k <= j
                         IN IF integer_from_point(size, touched[first]).some
                            THEN Panicked(panic_index) ELSE Panicked(panic_bad_point)

initialize_with_mines(b, mined_points) ==
    [set_points_as_mined(b, mined_points) EXCEPT !.initialized = TRUE]

\* initialize_from_point keeping the mines farther than 1 from the point
initialize_from_point_radius_one(b, point) ==
    {IF sampled.some THEN Some(initialize_with_mines(b, sampled.val)) ELSE None :
        sampled \in sample_points(b.size, b.mine_count, point, 1)}

\* the boards initialize_from_point may leave; None stands for the panic of
\* .expect("failed to init mines")
initialize_from_point(b, point) ==
    {IF sampled.some THEN Some(initialize_with_mines(b, sampled.val)) ELSE None :
        sampled \in sample_points(b.size, b.mine_count, point, 2)}

\* find_region: the recursion over the neighbours of a hidden empty cell that
\* has no mined neighbour, acc being the points inserted so far.  Every point
\* is inserted once and visited once, and the board is only read, so acc
\* ends the same in whatever order the inserted points are visited: they
\* are kept in a list of points still to visit.
RECURSIVE find_region_for(_, _, _)
find_region_for(b, pending, acc) ==
    IF pending = <<>> THEN acc
    ELSE LET cell == retrieve_cell(b, Head(pending))
             inserted ==
                 IF cell.content = "Empty" /\ cell.knowledge # "Known"
                    /\ cell.mined_neighbor_count = 0
                 THEN SelectSeq(neighbor_points(b, Head(pending)),
                                LAMBDA neighbor : neighbor \notin acc)
                 ELSE <<>>
         IN find_region_for(b, inserted \o Tail(pending), acc \cup Range(inserted))

find_region(b, point, acc) == find_region_for(b, <<point>>, acc)

\* reveal_point with "if !cell.knowledge.is_known()": a flagged cell is revealed
reveal_flagged_point(cell) ==
    IF cell.knowledge # "Known" THEN [cell EXCEPT !.knowledge = "Known"] ELSE cell

reveal_point(cell) ==
    IF cell.knowledge = "Unknown" THEN [cell EXCEPT !.knowledge = "Known"] ELSE cell

\* probe on an initialized board: the board left and the number returned
probe_initialized(b, point) ==
    LET region == find_region(b, point, {point})
        revealed == [b EXCEPT !.field =
                        [i \in DOMAIN b.field |->
                            IF b.field[i].point \in region
                            THEN reveal_point(b.field[i]) ELSE b.field[i]]]
    IN [board |-> revealed,
        hits |-> Cardinality({p \in region :
                     /\ retrieve_cell(revealed, p).content = "Mine"
                     /\ retrieve_cell(revealed, p).knowledge = "Known"})]

\* the outcomes of probe; None stands for the panic of initialize_from_point
probe(b, point) ==
    IF b.initialized THEN {Some(probe_initialized(b, point))}
    ELSE {IF made.some THEN Some(probe_initialized(made.val, point)) ELSE None :
             made \in initialize_from_point(b, point)}

\* the loop of chord over the neighbours, each probed on the board the
\* probes before it left; the board is initialized, as only probe makes a
\* cell Known and chord returns early on a cell that is not
RECURSIVE chord_for(_, _, _)
chord_for(b, neighbors, hits) ==
    IF neighbors = <<>> THEN [board |-> b, hits |-> hits]
    ELSE LET probed == probe_initialized(b, Head(neighbors))
         IN chord_for(probed.board, Tail(neighbors), hits + probed.hits)

\* chord without "if !cell.knowledge.is_known() { return 0 }"
chord_of_any_cell(b, point) ==
    LET cell == retrieve_cell(b, point)
    IN IF count_assumed_mined_neighbors(b, point) = cell.mined_neighbor_count
       THEN chord_for(b, neighbor_points(b, point), 0)
       ELSE [board |-> b, hits |-> 0]

chord(b, point) ==
    LET cell == retrieve_cell(b, point)
    IN IF cell.knowledge # "Known" THEN [board |-> b, hits |-> 0]
       ELSE IF count_assumed_mined_neighbors(b, point) = cell.mined_neighbor_count
       THEN chord_for(b, neighbor_points(b, point), 0)
       ELSE [board |-> b, hits |-> 0]

flag_neighbors(b, point) ==
    LET cell == retrieve_cell(b, point)
        ungood_points == SelectSeq(neighbor_points(b, point),
                             LAMBDA p : ~is_known_unmined(retrieve_cell(b, p)))
    IN IF Len(ungood_points) = cell.mined_neighbor_count
       THEN [b EXCEPT !.field =
                [i \in DOMAIN b.field |->
                    IF b.field[i].point \in Range(ungood_points)
                    THEN [b.field[i] EXCEPT !.knowledge = "Flag"] ELSE b.field[i]]]
       ELSE b

is_won(b) == b.mine_count = found_mines(b)


---------------------------------------------------------------------------
(* usize arithmetic: a subtraction below zero panics when overflow checks  *)
(* are on and wraps when they are off.                                     *)

usize_underflows(a, b) == b > a
usize_sub(a, b) == (a - b) % UsizeModulus
usize_add(a, b) == (a + b) % UsizeModulus

---------------------------------------------------------------------------
(* src/src/ai.rs: ConstraintFrontier                                       *)

\* the frontier of from_board: every cell that is not Known and has a Known neighbour
frontier_points(b) ==
    SelectSeq(size_points(b.size),
              LAMBDA p : retrieve_cell(b, p).knowledge # "Known"
                         /\ has_known_neighbors(b, p))

\* the border_points of from_board: every Known cell with a neighbour that is not Known
known_border_points(b) ==
    SelectSeq(size_points(b.size),
              LAMBDA p : retrieve_cell(b, p).knowledge = "Known"
                         /\ has_unknown_neighbors(b, p))

unknown_neighbors(b, point) ==
    SelectSeq(neighbor_points(b, point),
              LAMBDA q : retrieve_cell(b, q).knowledge = "Unknown")

\* whether building the constraint of one border point overflows
build_constraint_underflows(b, point) ==
    LET total_unknown == Len(unknown_neighbors(b, point))
        known_mines == count_assumed_mined_neighbors(b, point)
        count == retrieve_cell(b, point).mined_neighbor_count
    IN \/ usize_underflows(count, known_mines)
       \/ usize_underflows(total_unknown, usize_sub(count, known_mines))

build_constraint(b, point) ==
    LET total_unknown == Len(unknown_neighbors(b, point))
        known_mines == count_assumed_mined_neighbors(b, point)
        missing_mines == usize_sub(retrieve_cell(b, point).mined_neighbor_count,
                                   known_mines)
        missing_empties == usize_sub(total_unknown, missing_mines)
    IN [missing_mines |-> missing_mines,
        missing_empties |-> missing_empties,
        constrained_points |-> Range(unknown_neighbors(b, point))]

build_constraints(b, border) ==
    [k \in DOMAIN border |-> build_constraint(b, border[k])]

build_constraints_underflows(b, border) ==
    \E k \in DOMAIN border : build_constraint_underflows(b, border[k])

clamped_missing_mines(remaining) == IF remaining >= 0 THEN remaining ELSE 0

from_board(b) ==
    [points |-> frontier_points(b),
     missing_mines |-> clamped_missing_mines(remaining_mines(b)),
     constraints |-> build_constraints(b, known_border_points(b))]

from_board_panics(b, checked) ==
    checked /\ build_constraints_underflows(b, known_border_points(b))

\* satisfying_assignments that offers "mine" whatever the mine budgets are
satisfying_assignments_any_mine(f, point) ==
    LET empty_ok == \A k \in DOMAIN f.constraints :
                      point \in f.constraints[k].constrained_points
                          => f.constraints[k].missing_empties > 0
    IN <<TRUE>> \o (IF empty_ok THEN <<FALSE>> ELSE <<>>)

satisfying_assignments(f, point) ==
    LET mine_ok == \A k \in DOMAIN f.constraints :
                      point \in f.constraints[k].constrained_points
                          => f.constraints[k].missing_mines > 0
        empty_ok == \A k \in DOMAIN f.constraints :
                      point \in f.constraints[k].constrained_points
                          => f.constraints[k].missing_empties > 0
    IN (IF mine_ok THEN <<TRUE>> ELSE <<>>) \o (IF empty_ok THEN <<FALSE>> ELSE <<>>)

decrement(c, is_mine) ==
    IF is_mine THEN [c EXCEPT !.missing_mines = usize_sub(c.missing_mines, 1)]
    ELSE [c EXCEPT !.missing_empties = usize_sub(c.missing_empties, 1)]

increment(c, is_mine) ==
    IF is_mine THEN [c EXCEPT !.missing_mines = usize_add(c.missing_mines, 1)]
    ELSE [c EXCEPT !.missing_empties = usize_add(c.missing_empties, 1)]

\* update_point without "if mine {self.missing_mines -= 1}"
update_point_keeps_budget(f, point, mine) ==
    [f EXCEPT
       !.constraints = [k \in DOMAIN f.constraints |->
                           IF point \in f.constraints[k].constrained_points
                           THEN decrement(f.constraints[k], mine)
                           ELSE f.constraints[k]]]

update_point(f, point, mine) ==
    [f EXCEPT
       !.constraints = [k \in DOMAIN f.constraints |->
                           IF point \in f.constraints[k].constrained_points
                           THEN decrement(f.constraints[k], mine)
                           ELSE f.constraints[k]],
       !.missing_mines = IF mine THEN usize_sub(f.missing_mines, 1) ELSE f.missing_mines]

\* whether one of update_point's subtractions goes below zero
update_point_underflows(f, point, mine) ==
    \/ \E k \in DOMAIN f.constraints :
          /\ point \in f.constraints[k].constrained_points
          /\ IF mine THEN f.constraints[k].missing_mines = 0
             ELSE f.constraints[k].missing_empties = 0
    \/ mine /\ f.missing_mines = 0

undo_update(f, point, mine) ==
    [f EXCEPT
       !.constraints = [k \in DOMAIN f.constraints |->
                           IF point \in f.constraints[k].constrained_points
                           THEN increment(f.constraints[k], mine)
                           ELSE f.constraints[k]],
       !.missing_mines = IF mine THEN usize_add(f.missing_mines, 1) ELSE f.missing_mines]

\* backtracking_search: "if self.missing_mines == 0 { return None }"
budget_is_spent(f) == f.missing_mines = 0

---------------------------------------------------------------------------
(* src/src/ai.rs: the f32 values of get_naive_mine_probability, kept as    *)
(* exact quotients.  A usize that has wrapped below zero lies within a few *)
(* units of 2^64 and "as f32" rounds it to 2^64: WrappedAsF32 stands for   *)
(* that value, larger than every count of the board.                       *)

WrappedAsF32 == 2^12

as_f32(n) == IF n >= UsizeModulus - 2^8 THEN WrappedAsF32 ELSE n

NaN == [kind |-> "nan", n |-> 0, d |-> 1]
Infinity == [kind |-> "inf", n |-> 1, d |-> 1]

\* a / b for two non-negative f32 values
f32_div(a, b) ==
    IF b = 0 THEN (IF a = 0 THEN NaN ELSE Infinity)
    ELSE [kind |-> "num", n |-> a, d |-> b]

f32_is(x, whole) == x.kind = "num" /\ x.n = whole * x.d

f32_lt(x, y) ==
    CASE x.kind = "nan" \/ y.kind = "nan" -> FALSE
      [] x.kind = "inf" -> FALSE
      [] y.kind = "inf" -> TRUE
      [] OTHER -> x.n * y.d < y.n * x.d

\* the known neighbours of a point, in the order of neighbor_cells_from_point
known_neighbors(b, point) ==
    SelectSeq(neighbor_cells_from_point(b, point), LAMBDA c : c.knowledge = "Known")

\* one of the subtractions of the closure of get_naive_mine_probability goes
\* below zero
naive_ratio_underflows(b, neighbor) ==
    \/ usize_underflows(neighbor.mined_neighbor_count,
                        count_assumed_mined_neighbors(b, neighbor.point))
    \/ usize_underflows(count_unknown_neighbors(b, neighbor.point),
                        count_flagged_neighbors(b, neighbor.point))

\* (neighbor.mined_neighbor_count - mined) as f32/(unknown - flagged) as f32
naive_ratio(b, neighbor) ==
    f32_div(as_f32(usize_sub(neighbor.mined_neighbor_count,
                             count_assumed_mined_neighbors(b, neighbor.point))),
            as_f32(usize_sub(count_unknown_neighbors(b, neighbor.point),
                             count_flagged_neighbors(b, neighbor.point))))

\* the fold of get_naive_mine_probability over the ratios that are left
RECURSIVE naive_fold(_, _, _, _)
naive_fold(b, neighbors, acc, pessimistic) ==
    IF neighbors = <<>> THEN acc
    ELSE LET proba == naive_ratio(b, Head(neighbors))
             kept == IF f32_is(proba, IF pessimistic THEN 1 ELSE 0) THEN proba
                     ELSE IF pessimistic
                          THEN (IF f32_lt(acc, proba) THEN proba ELSE acc)
                          ELSE (IF f32_lt(proba, acc) THEN proba ELSE acc)
         IN naive_fold(b, Tail(neighbors), kept, pessimistic)

get_naive_mine_probability(b, point, pessimistic) ==
    LET cell == retrieve_cell(b, point)
        neighbors == known_neighbors(b, point)
    IN IF cell.knowledge = "Known"
       THEN (IF cell.content = "Mine" THEN f32_div(1, 1) ELSE f32_div(0, 1))
       ELSE IF cell.knowledge = "Flag" THEN f32_div(1, 1)
       ELSE IF neighbors = <<>>
            THEN f32_div(b.mine_count, area(b.size))
            ELSE naive_fold(b, Tail(neighbors), naive_ratio(b, Head(neighbors)),
                            pessimistic)

\* get_naive_mine_probability panics on an overflow for this point
naive_probability_underflows(b, point) ==
    /\ retrieve_cell(b, point).knowledge = "Unknown"
    /\ \E k \in DOMAIN known_neighbors(b, point) :
          naive_ratio_underflows(b, known_neighbors(b, point)[k])

unknown_points(b) ==
    SelectSeq(size_points(b.size), LAMBDA p : retrieve_cell(b, p).knowledge = "Unknown")

known_safe_flags(b) ==
    SelectSeq(unknown_points(b),
              LAMBDA p : f32_is(get_naive_mine_probability(b, p, TRUE), 1))

known_safe_clicks(b) ==
    SelectSeq(unknown_points(b),
              LAMBDA p : f32_is(get_naive_mine_probability(b, p, FALSE), 0))

\* known_safe_flags or known_safe_clicks panics on an overflow
safe_moves_underflow(b) ==
    \E k \in DOMAIN unknown_points(b) : naive_probability_underflows(b, unknown_points(b)[k])


---------------------------------------------------------------------------
(* The estimator, NaiveAI::get_monte_carlo_probabilities, with             *)
(* ConstraintFrontier::backtracking_search run one step at a time.  An     *)
(* activation of backtracking_search that has entered its for loop is a    *)
(* frame [point, possible, state] of stack; the activation at depth d was  *)
(* called with available_points = points[d+1 ..].                          *)

\* the two ways the estimator's thread panics
panic_overflow == "panicked: attempt to subtract with overflow"
panic_none == "panicked: got a none back"

empty_frontier == [points |-> <<>>, missing_mines |-> 0, constraints |-> <<>>]

\* the threads that run rollouts: the for loop runs in the caller's thread,
\* get_monte_carlo_probabilities spawns none
workers == {"caller"}

\* the cells of a board with their knowledge set: what probing the cells of
\* known (every other cell flagged meanwhile) and toggling flags leaves
with_knowledge(b, known, flagged) ==
    [b EXCEPT !.field =
        [i \in DOMAIN b.field |->
            [b.field[i] EXCEPT !.knowledge =
                IF b.field[i].point \in known THEN "Known"
                ELSE IF b.field[i].point \in flagged THEN "Flag"
                ELSE "Unknown"]]]

square(n) == [width |-> n, height |-> n]

subsets_upto(S, n) == {T \in SUBSET S : Cardinality(T) <= n}

\* the elements of a set of points in the order of size_points
in_board_order(size, S) == SelectSeq(size_points(size), LAMBDA p : p \in S)

\* the cells that may still be hidden: the 2 x 2 block in the corner of the
\* board, whose cell <<0, 0>> has no neighbour outside the block
corner_block == {<<0, 0>>, <<0, 1>>, <<1, 0>>, <<1, 1>>}

\* The boards the estimator is run on: mines laid in the corner block by
\* new_with_mines, every cell outside the block probed (so Known and empty),
\* every cell of the block probed, flagged or left alone.
board_snapshots ==
    LET size == square(Side)
        all == Range(size_points(size))
    IN {with_knowledge(new_with_mines(size, in_board_order(size, mines)).val,
                       all \ hidden, flagged) :
           mines \in subsets_upto(corner_block, MaxMines),
           hidden \in SUBSET corner_block,
           flagged \in subsets_upto(corner_block, MaxFlags)}

\* The boards after the agent's first move, Click(Point(0, 0)), found a
\* mine next to that corner: the corner is revealed and nothing else is.
\* The mines lie next to the corner or in the opposite corner.
opened_boards ==
    LET size == square(Side)
        first == <<0, 0>>
        mined == (corner_block \ {first}) \cup {<<Side - 1, Side - 1>>}
    IN {with_knowledge(new_with_mines(size, in_board_order(size, mines)).val,
                       {first}, {}) :
           mines \in {m \in subsets_upto(mined, MaxMines) :
                         m \cap corner_block # {}}}

idle_mc ==
    /\ board = new_from_size(square(0), 0).val
    /\ overflow_checks = TRUE
    /\ rollout_i = 0
    /\ counts = <<>>
    /\ border_points = <<>>
    /\ frontier = empty_frontier
    /\ points = <<>>
    /\ stack = <<>>
    /\ ret = None
    /\ pc = "idle"
    /\ result = <<>>

idle_solver ==
    /\ variables = <<>>
    /\ constraints = <<>>
    /\ variable_lookup = <<>>
    /\ variable_to_constraints = <<>>
    /\ global_counts = <<>>
    /\ selection_strategy = "Random"
    /\ remaining_points = <<>>
    /\ available_indices = {}
    /\ sstack = <<>>
    /\ sret = None
    /\ spc = "idle"
    /\ runs = <<>>

idle_agent ==
    /\ now = 0
    /\ move_queue = <<>>
    /\ move_delay = 0
    /\ start = 0
    /\ elapsed = 0
    /\ slept = <<>>
    /\ surfaced = None
    /\ returned_at = 0
    /\ apc = "idle"
    /\ calls = 0

\* no function of the board is being called
idle_fn ==
    /\ args = [fn |-> "none"]
    /\ out = <<>>

idle_loop ==
    /\ moves = 0
    /\ mines_hit = 0
    /\ mine_revealed = FALSE
    /\ lpc = "idle"

InitMC ==
    /\ board \in board_snapshots
    /\ overflow_checks \in BOOLEAN
    /\ rollout_i = 0
    /\ counts = <<>>
    /\ border_points = <<>>
    /\ frontier = empty_frontier
    /\ points = <<>>
    /\ stack = <<>>
    /\ ret = None
    /\ pc = "loop"
    /\ result = <<>>
    /\ idle_solver
    /\ idle_agent
    /\ idle_fn
    /\ idle_loop

\* for i in 0..rollouts { let mut frontier = from_board(board);
\*   let points = frontier.shuffled_frontier_points(); border_points = points...;
\*   frontier.backtracking_search(&points) ...
StartRollout ==
    /\ pc = "loop"
    /\ rollout_i < rollouts
    /\ IF from_board_panics(board, overflow_checks)
       THEN /\ pc' = panic_overflow
            /\ UNCHANGED <<frontier, points, border_points, stack, ret>>
       ELSE /\ frontier' = from_board(board)
            /\ \E shuffled \in Perms(frontier_points(board)) :
                  /\ points' = shuffled
                  /\ border_points' = shuffled
            /\ stack' = <<>>
            /\ ret' = None
            /\ pc' = "call"
    /\ UNCHANGED <<board, overflow_checks, rollout_i, counts, result>>
    /\ UNCHANGED solver_vars
    /\ UNCHANGED agent_vars
    /\ UNCHANGED fn_vars
    /\ UNCHANGED loop_vars

\* entry of backtracking_search, up to its for loop
SearchCall ==
    /\ pc = "call"
    /\ LET depth == Len(stack)
       IN IF budget_is_spent(frontier)
          THEN ret' = None /\ pc' = "return" /\ UNCHANGED stack
          ELSE IF depth = Len(points)
          THEN ret' = Some(<<>>) /\ pc' = "return" /\ UNCHANGED stack
          ELSE LET point == points[depth + 1]
                   possible == satisfying_assignments(frontier, point)
               IN IF Len(possible) = 0
                  THEN ret' = None /\ pc' = "return" /\ UNCHANGED stack
                  ELSE /\ stack' = Append(stack, [point |-> point,
                                                  possible |-> possible,
                                                  state |-> FALSE])
                       /\ pc' = "for"
                       /\ UNCHANGED ret
    /\ UNCHANGED <<board, overflow_checks, rollout_i, counts, border_points,
                   frontier, points, result>>
    /\ UNCHANGED solver_vars
    /\ UNCHANGED agent_vars
    /\ UNCHANGED fn_vars
    /\ UNCHANGED loop_vars

\* for state in possible { self.update_point(point, state); match self.backtracking_search(..
SearchFor ==
    /\ pc = "for"
    /\ LET top == stack[Len(stack)]
       IN IF top.possible = <<>>
          THEN /\ stack' = SubSeq(stack, 1, Len(stack) - 1)
               /\ ret' = None
               /\ pc' = "return"
               /\ UNCHANGED frontier
          ELSE LET state == Head(top.possible)
               IN IF overflow_checks /\ update_point_underflows(frontier, top.point, state)
                  THEN pc' = panic_overflow /\ UNCHANGED <<stack, ret, frontier>>
                  ELSE /\ frontier' = update_point(frontier, top.point, state)
                       /\ stack' = [stack EXCEPT ![Len(stack)] =
                                       [top EXCEPT !.possible = Tail(top.possible),
                                                   !.state = state]]
                       /\ pc' = "call"
                       /\ UNCHANGED ret
    /\ UNCHANGED <<board, overflow_checks, rollout_i, counts, border_points,
                   points, result>>
    /\ UNCHANGED solver_vars
    /\ UNCHANGED agent_vars
    /\ UNCHANGED fn_vars
    /\ UNCHANGED loop_vars

\* None => self.undo_update(point, state),
\* Some(mut children) => { if state { children.push(point) } return Some(children) }
SearchReturn ==
    /\ pc = "return"
    /\ stack # <<>>
    /\ LET top == stack[Len(stack)]
       IN IF ~ret.some
          THEN /\ frontier' = undo_update(frontier, top.point, top.state)
               /\ pc' = "for"
               /\ UNCHANGED <<stack, ret>>
          ELSE /\ ret' = Some(IF top.state THEN Append(ret.val, top.point) ELSE ret.val)
               /\ stack' = SubSeq(stack, 1, Len(stack) - 1)
               /\ pc' = "return"
               /\ UNCHANGED frontier
    /\ UNCHANGED <<board, overflow_checks, rollout_i, counts, border_points,
                   points, result>>
    /\ UNCHANGED solver_vars
    /\ UNCHANGED agent_vars
    /\ UNCHANGED fn_vars
    /\ UNCHANGED loop_vars

\* the merge of one rollout with counts.insert(mine, 1) on both branches: an
\* earlier rollout's count is lost
count_mined_overwrites(c, mined) ==
    [p \in DOMAIN c \cup Range(mined) |->
        IF p \in Range(mined) THEN 1 ELSE c[p]]

RECURSIVE count_mined(_, _)
count_mined(c, mined) ==
    IF mined = <<>> THEN c
    ELSE LET mine == Head(mined)
         IN count_mined(IF mine \in DOMAIN c
                        THEN [c EXCEPT ![mine] = usize_add(c[mine], 1)]
                        ELSE c @@ (mine :> 1),
                        Tail(mined))

\* the merge with unwrap_or_default() in place of expect(): a failed search
\* counts as a rollout without mines
Merge_swallows_none ==
    /\ pc = "return"
    /\ stack = <<>>
    /\ counts' = IF ret.some THEN count_mined(counts, ret.val) ELSE counts
    /\ rollout_i' = rollout_i + 1
    /\ pc' = "loop"
    /\ UNCHANGED <<board, overflow_checks, border_points, frontier, points, stack,
                   ret, result>>
    /\ UNCHANGED solver_vars
    /\ UNCHANGED agent_vars
    /\ UNCHANGED fn_vars
    /\ UNCHANGED loop_vars

\* let mined = frontier.backtracking_search(&points).expect("got a none back");
\* for mine in mined { ... counts ... }
Merge ==
    /\ pc = "return"
    /\ stack = <<>>
    /\ IF ~ret.some
       THEN pc' = panic_none /\ UNCHANGED <<counts, rollout_i>>
       ELSE /\ counts' = count_mined(counts, ret.val)
            /\ rollout_i' = rollout_i + 1
            /\ pc' = "loop"
    /\ UNCHANGED <<board, overflow_checks, border_points, frontier, points, stack,
                   ret, result>>
    /\ UNCHANGED solver_vars
    /\ UNCHANGED agent_vars
    /\ UNCHANGED fn_vars
    /\ UNCHANGED loop_vars

\* the quotient taken over one rollout too few
probability_over_one_less(count, n) == <<count, n - 1>>

\* (point, (*count as f32)/(rollouts as f32)): the quotient is kept as the
\* pair <<count, rollouts>>
probability(count, n) == <<count, n>>

probabilities(border, c) ==
    [p \in Range(border) |-> probability(IF p \in DOMAIN c THEN c[p] ELSE 0, rollouts)]

\* a loop that also ends when the clock has reached its last instant
Finish_at_deadline ==
    /\ pc = "loop"
    /\ rollout_i = rollouts \/ now = MaxTime
    /\ result' = probabilities(border_points, counts)
    /\ pc' = "done"
    /\ UNCHANGED <<board, overflow_checks, rollout_i, counts, border_points,
                   frontier, points, stack, ret>>
    /\ UNCHANGED solver_vars
    /\ UNCHANGED agent_vars
    /\ UNCHANGED fn_vars
    /\ UNCHANGED loop_vars

\* border_points.into_iter().map(...).collect()
Finish ==
    /\ pc = "loop"
    /\ rollout_i = rollouts
    /\ result' = probabilities(border_points, counts)
    /\ pc' = "done"
    /\ UNCHANGED <<board, overflow_checks, rollout_i, counts, border_points,
                   frontier, points, stack, ret>>
    /\ UNCHANGED solver_vars
    /\ UNCHANGED agent_vars
    /\ UNCHANGED fn_vars
    /\ UNCHANGED loop_vars

NextMC == StartRollout \/ SearchCall \/ SearchFor \/ SearchReturn \/ Merge \/ Finish

SpecMC == InitMC /\ [][NextMC]_vars

\* time passes while the estimator runs; the estimator never reads the clock
Tick ==
    /\ now < MaxTime
    /\ now' = now + 1
    /\ UNCHANGED <<move_queue, move_delay, start, elapsed, slept, surfaced,
                   returned_at, apc, calls>>
    /\ UNCHANGED mc_vars
    /\ UNCHANGED solver_vars
    /\ UNCHANGED fn_vars
    /\ UNCHANGED loop_vars

NextTimedMC == NextMC \/ Tick

SpecTimedMC == InitMC /\ [][NextTimedMC]_vars


---------------------------------------------------------------------------
(* The mine-count constraints handed to the solver.  The repository's      *)
(* implementations of the Constraint trait are not among its source files; *)
(* these follow the specification: a local constraint is a budget of mines *)
(* and empties over the variables it names, the global constraint the same *)
(* budget over the solver's running counts, naming no variable.            *)

local_constraint(ids, mines, empties) ==
    [global |-> FALSE, ids |-> ids, expected_mines |-> mines, expected_empties |-> empties]

global_constraint(mines, empties) ==
    [global |-> TRUE, ids |-> <<>>, expected_mines |-> mines, expected_empties |-> empties]

get_constrained_variable_ids(c) == c.ids

\* how many of the variables a constraint looks at hold Some(t)
assigned(c, lookup, t) ==
    LET seen == IF c.global THEN DOMAIN lookup ELSE Range(c.ids) \cap DOMAIN lookup
    IN Cardinality({v \in seen : lookup[v].value = Some(t)})

count_of(counts_map, t) == IF t \in DOMAIN counts_map THEN counts_map[t] ELSE 0

check_constraint(c, counts_map, lookup) ==
    IF c.global
    THEN /\ count_of(counts_map, TRUE) <= c.expected_mines
         /\ count_of(counts_map, FALSE) <= c.expected_empties
    ELSE /\ assigned(c, lookup, TRUE) <= c.expected_mines
         /\ assigned(c, lookup, FALSE) <= c.expected_empties

consistent_states_for_variable(c, lookup, v_id) ==
    (IF assigned(c, lookup, TRUE) < c.expected_mines THEN <<TRUE>> ELSE <<>>)
    \o (IF assigned(c, lookup, FALSE) < c.expected_empties THEN <<FALSE>> ELSE <<>>)

---------------------------------------------------------------------------
(* src/src/constraint.rs                                                   *)

new_variable(id, possible) == [id |-> id, value |-> None, possible |-> possible]

\* ConstraintSolver::new: the reverse index from variable id to constraints
RECURSIVE index_constraints(_, _)
index_constraints(index, cs) ==
    IF cs = <<>> THEN index
    ELSE LET c == Head(cs)
             ids == get_constrained_variable_ids(c)
             added == [v \in DOMAIN index \cup Range(ids) |->
                          LET group == IF v \in DOMAIN index THEN index[v] ELSE <<>>
                              times == Cardinality({k \in DOMAIN ids : ids[k] = v})
                          IN group \o [k \in 1..times |-> c]]
         IN index_constraints(added, Tail(cs))

new_variable_lookup(vs) ==
    [id \in {vs[k].id : k \in DOMAIN vs} |->
        vs[CHOOSE k \in DOMAIN vs : vs[k].id = id /\ \A j \in DOMAIN vs : vs[j].id = id => j <= k]]

\* RandomSelectionStrategy: available_indices.iter().next(), the first
\* element in the iteration order of a HashSet, which is any element
random_next_index(available) ==
    IF available = {} THEN {None} ELSE {Some(i) : i \in available}

degree(index, pts, idx) ==
    IF pts[idx + 1] \in DOMAIN index THEN Len(index[pts[idx + 1]]) ELSE 0

\* DegreeSelectionStrategy with .min() in place of .max()
degree_next_index_of_least(index, pts, available) ==
    IF available = {} THEN {None}
    ELSE {Some(i) : i \in {i \in available :
                             \A j \in available :
                                \/ degree(index, pts, j) > degree(index, pts, i)
                                \/ degree(index, pts, j) = degree(index, pts, i) /\ j >= i}}

\* DegreeSelectionStrategy: the maximum of the pairs (count, idx)
degree_next_index(index, pts, available) ==
    IF available = {} THEN {None}
    ELSE {Some(i) : i \in {i \in available :
                             \A j \in available :
                                \/ degree(index, pts, j) < degree(index, pts, i)
                                \/ degree(index, pts, j) = degree(index, pts, i) /\ j <= i}}

\* the indices get_next_index may return
get_next_index(strategy, index, pts, available) ==
    IF strategy = "Degree" THEN degree_next_index(index, pts, available)
    ELSE random_next_index(available)

\* set_variable_state without "if let Some(state) = variable.value { .. -= 1 }"
set_variable_state_keeps_count(lookup, counts_map, v_id, state) ==
    LET taken == IF state.some
                 THEN IF state.val \in DOMAIN counts_map
                      THEN [counts_map EXCEPT ![state.val] = usize_add(@, 1)]
                      ELSE counts_map @@ (state.val :> usize_add(0, 1))
                 ELSE counts_map
    IN [variable_lookup |-> [lookup EXCEPT ![v_id].value = state],
        global_counts |-> taken]

\* set_variable_state: the counts and the lookup afterwards
set_variable_state(lookup, counts_map, v_id, state) ==
    LET old == lookup[v_id].value
        released == IF old.some
                    THEN IF old.val \in DOMAIN counts_map
                         THEN [counts_map EXCEPT ![old.val] = usize_sub(@, 1)]
                         ELSE counts_map @@ (old.val :> usize_sub(1, 1))
                    ELSE counts_map
        taken == IF state.some
                 THEN IF state.val \in DOMAIN released
                      THEN [released EXCEPT ![state.val] = usize_add(@, 1)]
                      ELSE released @@ (state.val :> usize_add(0, 1))
                 ELSE released
    IN [variable_lookup |-> [lookup EXCEPT ![v_id].value = state],
        global_counts |-> taken]

constraints_of(index, v_id) == IF v_id \in DOMAIN index THEN index[v_id] ELSE <<>>

constraints_are_satisfied(lookup, index, counts_map, v_id) ==
    \A k \in DOMAIN constraints_of(index, v_id) :
        check_constraint(constraints_of(index, v_id)[k], counts_map, lookup)

\* the variable ids forward_check asks consistent states for
forward_checked_ids(index, v_id) ==
    UNION {Range(get_constrained_variable_ids(constraints_of(index, v_id)[k])) :
              k \in DOMAIN constraints_of(index, v_id)}

forward_check(lookup, index, v_id) ==
    \A k \in DOMAIN constraints_of(index, v_id) :
        LET c == constraints_of(index, v_id)[k]
        IN \A j \in DOMAIN get_constrained_variable_ids(c) :
              Len(consistent_states_for_variable(
                      c, lookup, get_constrained_variable_ids(c)[j])) # 0

---------------------------------------------------------------------------
(* ConstraintSolver::backtrack with _backtrack run one step at a time.  An *)
(* activation of _backtrack that has removed its index is a frame          *)
(* [index, v_id, states, state] of sstack.                                 *)

value_orders == {<<TRUE, FALSE>>, <<FALSE, TRUE>>}

\* the elements of a set of numbers as an increasing sequence
RECURSIVE increasing(_)
increasing(S) ==
    IF S = {} THEN <<>>
    ELSE LET least == CHOOSE x \in S : \A y \in S : x <= y
         IN <<least>> \o increasing(S \ {least})

\* the constraint lists handed to the solver: at most one local constraint,
\* over some of the variables or over an id that is no variable's, then at
\* most one global constraint, whose budgets add up to the number of variables
constraint_lists(ids) ==
    LET scopes == ((SUBSET ids) \ {{}}) \cup {{Cardinality(ids) + 1}}
        locals == {<<>>} \cup
                  {<<local_constraint(increasing(scope), m, e)>> :
                      scope \in scopes,
                      m \in 0..MaxBudget, e \in 0..MaxBudget}
        globals == {<<>>} \cup
                   {<<global_constraint(m, Cardinality(ids) - m)>> :
                       m \in {m \in 0..MaxBudget : m <= Cardinality(ids)}}
    IN {l \o g : l \in locals, g \in globals}

InitSolver ==
    /\ \E n \in 1..MaxVars, possible \in value_orders :
          /\ variables = [k \in 1..n |-> new_variable(k, possible)]
          /\ constraints \in constraint_lists(1..n)
    /\ selection_strategy \in {"Random", "Degree"}
    /\ variable_lookup = new_variable_lookup(variables)
    /\ variable_to_constraints = index_constraints(<<>>, constraints)
    /\ global_counts = <<>>
    /\ remaining_points = <<>>
    /\ available_indices = {}
    /\ sstack = <<>>
    /\ sret = None
    /\ spc = "ready"
    /\ runs = <<>>
    /\ idle_mc
    /\ idle_agent
    /\ idle_fn
    /\ idle_loop

\* backtrack(): remaining_points is the key order of the HashMap
Backtrack ==
    /\ spc = "ready"
    /\ remaining_points' \in Perms(increasing(DOMAIN variable_lookup))
    /\ available_indices' = 0..(Cardinality(DOMAIN variable_lookup) - 1)
    /\ sstack' = <<>>
    /\ spc' = "call"
    /\ UNCHANGED <<variables, constraints, variable_lookup, variable_to_constraints,
                   global_counts, selection_strategy, sret, runs>>
    /\ UNCHANGED mc_vars
    /\ UNCHANGED agent_vars
    /\ UNCHANGED fn_vars
    /\ UNCHANGED loop_vars

\* entry of _backtrack, up to its for loop
SolverCall ==
    /\ spc = "call"
    /\ \E next \in get_next_index(selection_strategy, variable_to_constraints,
                                  remaining_points, available_indices) :
          IF ~next.some
          THEN /\ sret' = Some(<<>>)
               /\ spc' = "return"
               /\ UNCHANGED <<available_indices, sstack>>
          ELSE LET v_id == remaining_points[next.val + 1]
               IN /\ available_indices' = available_indices \ {next.val}
                  /\ sstack' = Append(sstack,
                                      [index |-> next.val, v_id |-> v_id,
                                       states |-> variable_lookup[v_id].possible,
                                       state |-> FALSE])
                  /\ spc' = "for"
                  /\ UNCHANGED sret
    /\ UNCHANGED <<variables, constraints, variable_lookup, variable_to_constraints,
                   global_counts, selection_strategy, remaining_points, runs>>
    /\ UNCHANGED mc_vars
    /\ UNCHANGED agent_vars
    /\ UNCHANGED fn_vars
    /\ UNCHANGED loop_vars

\* for state in states { self.set_variable_state(&v_id, Some(state)); ...
\* after the loop: available_indices.insert(index); None
SolverFor ==
    /\ spc = "for"
    /\ LET top == sstack[Len(sstack)]
       IN IF top.states = <<>>
          THEN /\ available_indices' = available_indices \cup {top.index}
               /\ sstack' = SubSeq(sstack, 1, Len(sstack) - 1)
               /\ sret' = None
               /\ spc' = "return"
               /\ UNCHANGED <<variable_lookup, global_counts>>
          ELSE LET set == set_variable_state(variable_lookup, global_counts, top.v_id,
                                             Some(Head(top.states)))
               IN /\ variable_lookup' = set.variable_lookup
                  /\ global_counts' = set.global_counts
                  /\ sstack' = [sstack EXCEPT ![Len(sstack)] =
                                   [top EXCEPT !.states = Tail(top.states),
                                               !.state = Head(top.states)]]
                  /\ spc' = "check"
                  /\ UNCHANGED <<available_indices, sret>>
    /\ UNCHANGED <<variables, constraints, variable_to_constraints,
                   selection_strategy, remaining_points, runs>>
    /\ UNCHANGED mc_vars
    /\ UNCHANGED agent_vars
    /\ UNCHANGED fn_vars
    /\ UNCHANGED loop_vars

\* the loop body without "self.set_variable_state(&v_id, None)" after a
\* state that the constraints reject
SolverCheck_keeps_value ==
    /\ spc = "check"
    /\ LET top == sstack[Len(sstack)]
       IN IF /\ constraints_are_satisfied(variable_lookup, variable_to_constraints,
                                          global_counts, top.v_id)
             /\ forward_check(variable_lookup, variable_to_constraints, top.v_id)
          THEN spc' = "call"
          ELSE spc' = "for"
    /\ UNCHANGED <<variable_lookup, global_counts>>
    /\ UNCHANGED <<variables, constraints, variable_to_constraints, selection_strategy,
                   remaining_points, available_indices, sstack, sret, runs>>
    /\ UNCHANGED mc_vars
    /\ UNCHANGED agent_vars
    /\ UNCHANGED fn_vars
    /\ UNCHANGED loop_vars

\* if self.constraints_are_satisfied(&v_id) && self.forward_check(&v_id) { recurse }
\* else: self.set_variable_state(&v_id, None)
SolverCheck ==
    /\ spc = "check"
    /\ LET top == sstack[Len(sstack)]
       IN IF /\ constraints_are_satisfied(variable_lookup, variable_to_constraints,
                                          global_counts, top.v_id)
             /\ forward_check(variable_lookup, variable_to_constraints, top.v_id)
          THEN /\ spc' = "call"
               /\ UNCHANGED <<variable_lookup, global_counts>>
          ELSE LET set == set_variable_state(variable_lookup, global_counts, top.v_id, None)
               IN /\ variable_lookup' = set.variable_lookup
                  /\ global_counts' = set.global_counts
                  /\ spc' = "for"
    /\ UNCHANGED <<variables, constraints, variable_to_constraints, selection_strategy,
                   remaining_points, available_indices, sstack, sret, runs>>
    /\ UNCHANGED mc_vars
    /\ UNCHANGED agent_vars
    /\ UNCHANGED fn_vars
    /\ UNCHANGED loop_vars

\* if let Some(mut children) = self._backtrack(..) { children.insert(v_id, state);
\*     return Some(children) }   self.set_variable_state(&v_id, None)
SolverReturn ==
    /\ spc = "return"
    /\ sstack # <<>>
    /\ LET top == sstack[Len(sstack)]
       IN IF sret.some
          THEN /\ sret' = Some(IF top.v_id \in DOMAIN sret.val
                               THEN [sret.val EXCEPT ![top.v_id] = top.state]
                               ELSE sret.val @@ (top.v_id :> top.state))
               /\ sstack' = SubSeq(sstack, 1, Len(sstack) - 1)
               /\ spc' = "return"
               /\ UNCHANGED <<variable_lookup, global_counts>>
          ELSE LET set == set_variable_state(variable_lookup, global_counts, top.v_id, None)
               IN /\ variable_lookup' = set.variable_lookup
                  /\ global_counts' = set.global_counts
                  /\ spc' = "for"
                  /\ UNCHANGED <<sstack, sret>>
    /\ UNCHANGED <<variables, constraints, variable_to_constraints, selection_strategy,
                   remaining_points, available_indices, runs>>
    /\ UNCHANGED mc_vars
    /\ UNCHANGED agent_vars
    /\ UNCHANGED fn_vars
    /\ UNCHANGED loop_vars

\* backtrack() hands the outermost result to its caller
BacktrackReturn ==
    /\ spc = "return"
    /\ sstack = <<>>
    /\ runs' = Append(runs, sret)
    /\ spc' = "returned"
    /\ UNCHANGED <<variables, constraints, variable_lookup, variable_to_constraints,
                   global_counts, selection_strategy, remaining_points,
                   available_indices, sstack, sret>>
    /\ UNCHANGED mc_vars
    /\ UNCHANGED agent_vars
    /\ UNCHANGED fn_vars
    /\ UNCHANGED loop_vars

\* the caller builds another solver from the same variables and constraints
NewSolver ==
    /\ spc = "returned"
    /\ Len(runs) < MaxRuns
    /\ variable_lookup' = new_variable_lookup(variables)
    /\ variable_to_constraints' = index_constraints(<<>>, constraints)
    /\ global_counts' = <<>>
    /\ remaining_points' = <<>>
    /\ available_indices' = {}
    /\ sstack' = <<>>
    /\ sret' = None
    /\ spc' = "ready"
    /\ UNCHANGED <<variables, constraints, selection_strategy, runs>>
    /\ UNCHANGED mc_vars
    /\ UNCHANGED agent_vars
    /\ UNCHANGED fn_vars
    /\ UNCHANGED loop_vars

NextSolver ==
    \/ Backtrack \/ SolverCall \/ SolverFor \/ SolverCheck \/ SolverReturn
    \/ BacktrackReturn \/ NewSolver

SpecSolver == InitSolver /\ [][NextSolver]_vars

---------------------------------------------------------------------------
(* The agent, NaiveAI.  generate_move runs one step at a time: apc is the  *)
(* position of the call, "ready" before the first call, "popped" after a   *)
(* call that returned a queued move and "returned" after a call that        *)
(* computed new moves.  The estimator runs with the actions above while    *)
(* apc = "estimating".                                                      *)

panic_no_moves == "panicked: something weird happened and we have no moves"
panic_no_best == "panicked: so we just didn't have anything or something?"

Click(point) == [type |-> "Click", point |-> point]
Flag(point) == [type |-> "Flag", point |-> point]

\* Vec::pop takes the last element
last(s) == s[Len(s)]
without_last(s) == SubSeq(s, 1, Len(s) - 1)

\* NaiveAI::new(move_delay)
InitAgent ==
    /\ board \in board_snapshots \cup opened_boards
    /\ overflow_checks \in BOOLEAN
    /\ rollout_i = 0
    /\ counts = <<>>
    /\ border_points = <<>>
    /\ frontier = empty_frontier
    /\ points = <<>>
    /\ stack = <<>>
    /\ ret = None
    /\ pc = "idle"
    /\ result = <<>>
    /\ idle_solver
    /\ now = 0
    /\ move_queue = <<Click(<<0, 0>>)>>
    /\ move_delay \in 0..MaxDelay
    /\ start = 0
    /\ elapsed = 0
    /\ slept = <<>>
    /\ surfaced = None
    /\ returned_at = 0
    /\ apc = "ready"
    /\ calls = 0
    /\ idle_fn
    /\ idle_loop

\* the loop of generate_next_moves over the probabilities, in their order:
\* acc is [actions, highest_proba, best_point]
RECURSIVE scan_probabilities(_, _, _)
scan_probabilities(border, res, acc) ==
    IF border = <<>> THEN acc
    ELSE LET point == Head(border)
             proba == f32_div(res[point][1], res[point][2])
             higher == f32_lt(acc.highest_proba, proba)
             clicked == IF f32_is(proba, 0)
                        THEN Append(acc.actions, Click(point)) ELSE acc.actions
             flagged == IF f32_is(proba, 1)
                        THEN Append(clicked, Flag(point)) ELSE clicked
         IN scan_probabilities(Tail(border), res,
               [actions |-> flagged,
                highest_proba |-> IF higher THEN proba ELSE acc.highest_proba,
                best_point |-> IF higher THEN Some(point) ELSE acc.best_point])

scanned(border, res) ==
    scan_probabilities(border, res,
        [actions |-> <<>>, highest_proba |-> f32_div(0, 1), best_point |-> None])

\* the tail of generate_next_moves with the test actions.len() == 0 left out
monte_carlo_actions_with_best(border, res) ==
    LET found == scanned(border, res)
    IN IF found.best_point.some
       THEN Append(found.actions, Flag(found.best_point.val))
       ELSE found.actions

\* the actions generate_next_moves makes of the estimator's probabilities;
\* <<>> stands for the panic of best_point.expect
monte_carlo_actions(border, res) ==
    LET found == scanned(border, res)
    IN IF Len(found.actions) = 0
       THEN (IF found.best_point.some THEN <<Flag(found.best_point.val)>> ELSE <<>>)
       ELSE found.actions

\* generate_move up to the match on self.move_queue.pop(); a call begins
\* only while the clock leaves room for move_delay
GenerateMove ==
    /\ apc \in {"ready", "popped", "returned"}
    /\ calls < MaxCalls
    /\ calls' = calls + 1
    /\ now + move_delay <= MaxTime
    /\ start' = now
    /\ IF move_queue # <<>>
       THEN /\ surfaced' = Some(last(move_queue))
            /\ move_queue' = without_last(move_queue)
            /\ returned_at' = now
            /\ apc' = "popped"
       ELSE /\ apc' = "generate"
            /\ surfaced' = None
            /\ returned_at' = now
            /\ UNCHANGED move_queue
    /\ elapsed' = 0
    /\ slept' = <<>>
    /\ rollout_i' = 0
    /\ counts' = <<>>
    /\ border_points' = <<>>
    /\ frontier' = empty_frontier
    /\ points' = <<>>
    /\ stack' = <<>>
    /\ ret' = None
    /\ pc' = "idle"
    /\ result' = <<>>
    /\ UNCHANGED <<board, overflow_checks, now, move_delay>>
    /\ UNCHANGED solver_vars
    /\ UNCHANGED fn_vars
    /\ UNCHANGED loop_vars

\* generate_next_moves up to the call of get_monte_carlo_probabilities
GenerateNextMoves ==
    /\ apc = "generate"
    /\ IF overflow_checks /\ safe_moves_underflow(board)
       THEN apc' = panic_overflow /\ UNCHANGED <<move_queue, pc>>
       ELSE LET safe_flags == known_safe_flags(board)
                safe_clicks == known_safe_clicks(board)
            IN IF Len(safe_flags) > 0
               THEN /\ move_queue' = [k \in DOMAIN safe_flags |-> Flag(safe_flags[k])]
                    /\ apc' = "computed"
                    /\ UNCHANGED pc
               ELSE IF Len(safe_clicks) > 0
               THEN /\ move_queue' = [k \in DOMAIN safe_clicks |-> Click(safe_clicks[k])]
                    /\ apc' = "computed"
                    /\ UNCHANGED pc
               ELSE /\ apc' = "estimating"
                    /\ pc' = "loop"
                    /\ UNCHANGED move_queue
    /\ UNCHANGED <<board, overflow_checks, rollout_i, counts, border_points,
                   frontier, points, stack, ret, result>>
    /\ UNCHANGED <<now, move_delay, start, elapsed, slept, surfaced, returned_at,
                   calls>>
    /\ UNCHANGED solver_vars
    /\ UNCHANGED fn_vars
    /\ UNCHANGED loop_vars

\* the rest of generate_next_moves, once the estimator has returned
PickMoves ==
    /\ apc = "estimating"
    /\ pc = "done"
    /\ LET actions == monte_carlo_actions(border_points, result)
       IN IF actions = <<>>
          THEN apc' = panic_no_best /\ UNCHANGED move_queue
          ELSE move_queue' = actions /\ apc' = "computed"
    /\ UNCHANGED mc_vars
    /\ UNCHANGED <<now, move_delay, start, elapsed, slept, surfaced, returned_at,
                   calls>>
    /\ UNCHANGED solver_vars
    /\ UNCHANGED fn_vars
    /\ UNCHANGED loop_vars

\* a panic of the estimator unwinds through generate_move
EstimatorPanics ==
    /\ apc = "estimating"
    /\ pc \in {panic_overflow, panic_none}
    /\ apc' = pc
    /\ UNCHANGED mc_vars
    /\ UNCHANGED <<now, move_queue, move_delay, start, elapsed, slept, surfaced,
                   returned_at, calls>>
    /\ UNCHANGED solver_vars
    /\ UNCHANGED fn_vars
    /\ UNCHANGED loop_vars

\* the clock is read and the move is handed out without a sleep
Computed_never_sleeps ==
    /\ apc = "computed"
    /\ \E t \in now..MaxTime :
          /\ now' = t
          /\ elapsed' = t - start
    /\ slept' = <<>>
    /\ apc' = "pop"
    /\ UNCHANGED mc_vars
    /\ UNCHANGED <<move_queue, move_delay, start, surfaced, returned_at, calls>>
    /\ UNCHANGED solver_vars
    /\ UNCHANGED fn_vars
    /\ UNCHANGED loop_vars

\* let now = time::Instant::now(); let elapsed = now - start;
\* if move_delay > elapsed { thread::sleep(move_delay - elapsed) }
\* the time the computation took has passed when the clock is read
Computed ==
    /\ apc = "computed"
    /\ \E t \in now..MaxTime :
          /\ now' = t
          /\ elapsed' = t - start
          /\ IF move_delay > t - start
             THEN slept' = <<move_delay - (t - start)>> /\ apc' = "sleeping"
             ELSE slept' = <<>> /\ apc' = "pop"
    /\ UNCHANGED mc_vars
    /\ UNCHANGED <<move_queue, move_delay, start, surfaced, returned_at, calls>>
    /\ UNCHANGED solver_vars
    /\ UNCHANGED fn_vars
    /\ UNCHANGED loop_vars

\* thread::sleep returns once at least the duration has passed
Sleep ==
    /\ apc = "sleeping"
    /\ \E t \in (now + slept[1])..MaxTime : now' = t
    /\ apc' = "pop"
    /\ UNCHANGED mc_vars
    /\ UNCHANGED <<move_queue, move_delay, start, elapsed, slept, surfaced,
                   returned_at, calls>>
    /\ UNCHANGED solver_vars
    /\ UNCHANGED fn_vars
    /\ UNCHANGED loop_vars

\* self.move_queue.pop().expect("something weird happened and we have no moves")
Pop ==
    /\ apc = "pop"
    /\ IF move_queue = <<>>
       THEN apc' = panic_no_moves /\ UNCHANGED <<move_queue, surfaced, returned_at>>
       ELSE /\ surfaced' = Some(last(move_queue))
            /\ move_queue' = without_last(move_queue)
            /\ returned_at' = now
            /\ apc' = "returned"
    /\ UNCHANGED mc_vars
    /\ UNCHANGED <<now, move_delay, start, elapsed, slept, calls>>
    /\ UNCHANGED solver_vars
    /\ UNCHANGED fn_vars
    /\ UNCHANGED loop_vars

NextAgent ==
    \/ GenerateMove
    \/ GenerateNextMoves
    \/ NextMC
    \/ PickMoves
    \/ EstimatorPanics
    \/ Computed
    \/ Sleep
    \/ Pop

SpecAgent == InitAgent /\ [][NextAgent]_vars

---------------------------------------------------------------------------
(* The board under a caller of its public operations: toggle_flag, probe,  *)
(* chord and flag_neighbors, the four that game_loop calls.  args and out  *)
(* hold the name of the last operation and what it returned.               *)

panic_init == "panicked: failed to init mines"

InitBoard ==
    /\ board \in board_snapshots
    /\ overflow_checks = TRUE
    /\ rollout_i = 0
    /\ counts = <<>>
    /\ border_points = <<>>
    /\ frontier = empty_frontier
    /\ points = <<>>
    /\ stack = <<>>
    /\ ret = None
    /\ pc = "idle"
    /\ result = <<>>
    /\ idle_solver
    /\ idle_agent
    /\ idle_fn
    /\ idle_loop

\* board.toggle_flag(&point)
ToggleFlag ==
    /\ pc = "idle"
    /\ \E point \in Range(size_points(board.size)) :
          /\ board' = board_toggle_flag(board, point)
          /\ args' = [fn |-> "toggle_flag"]
          /\ out' = <<>>
    /\ UNCHANGED <<overflow_checks, rollout_i, counts, border_points, frontier,
                   points, stack, ret, pc, result>>
    /\ UNCHANGED solver_vars
    /\ UNCHANGED agent_vars
    /\ UNCHANGED loop_vars

\* board.probe(&point)
Probe ==
    /\ pc = "idle"
    /\ \E point \in Range(size_points(board.size)) :
          \E probed \in probe(board, point) :
             /\ args' = [fn |-> "probe"]
             /\ IF probed.some
                THEN /\ board' = probed.val.board
                     /\ out' = <<probed.val.hits>>
                     /\ pc' = pc
                ELSE /\ pc' = panic_init
                     /\ UNCHANGED <<board, out>>
    /\ UNCHANGED <<overflow_checks, rollout_i, counts, border_points, frontier,
                   points, stack, ret, result>>
    /\ UNCHANGED solver_vars
    /\ UNCHANGED agent_vars
    /\ UNCHANGED loop_vars

\* board.chord(&point)
Chord ==
    /\ pc = "idle"
    /\ \E point \in Range(size_points(board.size)) :
          /\ board' = chord(board, point).board
          /\ args' = [fn |-> "chord"]
          /\ out' = <<chord(board, point).hits>>
    /\ UNCHANGED <<overflow_checks, rollout_i, counts, border_points, frontier,
                   points, stack, ret, pc, result>>
    /\ UNCHANGED solver_vars
    /\ UNCHANGED agent_vars
    /\ UNCHANGED loop_vars

\* board.flag_neighbors(&point)
FlagNeighbors ==
    /\ pc = "idle"
    /\ \E point \in Range(size_points(board.size)) :
          /\ board' = flag_neighbors(board, point)
          /\ args' = [fn |-> "flag_neighbors"]
          /\ out' = <<>>
    /\ UNCHANGED <<overflow_checks, rollout_i, counts, border_points, frontier,
                   points, stack, ret, pc, result>>
    /\ UNCHANGED solver_vars
    /\ UNCHANGED agent_vars
    /\ UNCHANGED loop_vars

NextBoard == ToggleFlag \/ Probe \/ Chord \/ FlagNeighbors

SpecBoard == InitBoard /\ [][NextBoard]_vars

---------------------------------------------------------------------------
(* The first probe of a game: a board fresh from new_from_size is probed   *)
(* once, which lays the mines, and once more.  args holds the operation    *)
(* and, for the first probe, its point.                                    *)

\* the boards a game starts on: large enough to have cells farther than 2
\* from a corner
fresh_boards ==
    {new_from_size(square(Side + 1), mine_count).val : mine_count \in 0..MaxMines}

InitFirstProbe ==
    /\ board \in fresh_boards
    /\ overflow_checks = TRUE
    /\ rollout_i = 0
    /\ counts = <<>>
    /\ border_points = <<>>
    /\ frontier = empty_frontier
    /\ points = <<>>
    /\ stack = <<>>
    /\ ret = None
    /\ pc = "idle"
    /\ result = <<>>
    /\ idle_solver
    /\ idle_agent
    /\ idle_fn
    /\ idle_loop

\* board.probe(&point) with board.initialized false
FirstProbe ==
    /\ pc = "idle"
    /\ ~board.initialized
    /\ \E point \in Range(size_points(board.size)) :
          \E probed \in probe(board, point) :
             /\ args' = [fn |-> "first probe", point |-> point]
             /\ IF probed.some
                THEN /\ board' = probed.val.board
                     /\ out' = <<probed.val.hits>>
                     /\ pc' = pc
                ELSE /\ pc' = panic_init
                     /\ UNCHANGED <<board, out>>
    /\ UNCHANGED <<overflow_checks, rollout_i, counts, border_points, frontier,
                   points, stack, ret, result>>
    /\ UNCHANGED solver_vars
    /\ UNCHANGED agent_vars
    /\ UNCHANGED loop_vars

\* board.probe(&point) with board.initialized true
LaterProbe ==
    /\ pc = "idle"
    /\ board.initialized
    /\ args.fn = "first probe"
    /\ \E point \in Range(size_points(board.size)) :
          \E probed \in probe(board, point) :
             /\ probed.some
             /\ board' = probed.val.board
             /\ args' = [fn |-> "probe"]
             /\ out' = <<probed.val.hits>>
    /\ UNCHANGED <<overflow_checks, rollout_i, counts, border_points, frontier,
                   points, stack, ret, pc, result>>
    /\ UNCHANGED solver_vars
    /\ UNCHANGED agent_vars
    /\ UNCHANGED loop_vars

NextFirstProbe == FirstProbe \/ LaterProbe

SpecFirstProbe == InitFirstProbe /\ [][NextFirstProbe]_vars

---------------------------------------------------------------------------
(* ai_game_loop.  The batch "moves" comes from the agent and is an input   *)
(* of the loop: its length is drawn when it is generated and each of its   *)
(* actions when the for loop reaches it.                                   *)

\* the values of ActionType on the points of a board
actions_on(b) ==
    {[type |-> t, point |-> point] :
        t \in {"Click", "Flag", "Complete", "Chord"},
        point \in Range(size_points(b.size))}

\* the arm of the match for one action: the boards it may leave with the
\* value it yields; None stands for a panic of probe
action_outcomes(b, action) ==
    CASE action.type = "Click" -> probe(b, action.point)
      [] action.type = "Flag" ->
            {Some([board |-> board_toggle_flag(b, action.point), hits |-> 0])}
      [] action.type = "Complete" ->
            {Some([board |-> flag_neighbors(b, action.point), hits |-> 0])}
      [] action.type = "Chord" -> {Some(chord(b, action.point))}

InitAiLoop ==
    /\ board \in board_snapshots
    /\ overflow_checks = TRUE
    /\ rollout_i = 0
    /\ counts = <<>>
    /\ border_points = <<>>
    /\ frontier = empty_frontier
    /\ points = <<>>
    /\ stack = <<>>
    /\ ret = None
    /\ pc = "idle"
    /\ result = <<>>
    /\ idle_solver
    /\ idle_agent
    /\ idle_fn
    /\ moves = 0
    /\ mines_hit = 0
    /\ mine_revealed = FALSE
    /\ lpc = "while"

\* while !board.is_won() { let moves = ai::generate_move(board); let mut mines = 0;
AiLoopWhile ==
    /\ lpc = "while"
    /\ IF is_won(board)
       THEN /\ lpc' = "done"
            /\ UNCHANGED <<moves, mines_hit, mine_revealed>>
       ELSE /\ moves' \in 1..MaxBatch
            /\ mines_hit' = 0
            /\ mine_revealed' = FALSE
            /\ lpc' = "for"
    /\ UNCHANGED mc_vars
    /\ UNCHANGED solver_vars
    /\ UNCHANGED agent_vars
    /\ UNCHANGED fn_vars

\* for action in moves { mines = match action { .. } }
AiLoopFor ==
    /\ lpc = "for"
    /\ moves > 0
    /\ \E action \in actions_on(board) :
          \E outcome \in action_outcomes(board, action) :
             IF outcome.some
             THEN /\ board' = outcome.val.board
                  /\ mines_hit' = outcome.val.hits
                  /\ mine_revealed' = (mine_revealed \/ outcome.val.hits > 0)
                  /\ moves' = moves - 1
                  /\ lpc' = lpc
             ELSE /\ lpc' = panic_init
                  /\ UNCHANGED <<board, mines_hit, mine_revealed, moves>>
    /\ UNCHANGED <<overflow_checks, rollout_i, counts, border_points, frontier,
                   points, stack, ret, pc, result>>
    /\ UNCHANGED solver_vars
    /\ UNCHANGED agent_vars
    /\ UNCHANGED fn_vars

\* after the for loop: if mines > 0 { break }
AiLoopBreak ==
    /\ lpc = "for"
    /\ moves = 0
    /\ lpc' = IF mines_hit > 0 THEN "done" ELSE "while"
    /\ UNCHANGED <<moves, mines_hit, mine_revealed>>
    /\ UNCHANGED mc_vars
    /\ UNCHANGED solver_vars
    /\ UNCHANGED agent_vars
    /\ UNCHANGED fn_vars

NextAiLoop == AiLoopWhile \/ AiLoopFor \/ AiLoopBreak

SpecAiLoop == InitAiLoop /\ [][NextAiLoop]_vars

---------------------------------------------------------------------------
(* The functions of BoardSize and Board that take no board state: one call *)
(* of one of them, on arguments of every small size, square or not.        *)

sizes == {[width |-> w, height |-> h] : w \in 0..MaxWidth, h \in 0..MaxHeight}

new_from_ints_calls ==
    {[fn |-> "new_from_ints", width |-> w, height |-> h, mine_count |-> m] :
        w \in 0..MaxWidth, h \in 0..MaxHeight, m \in 0..(MaxWidth * MaxHeight + 1)}

point_from_integer_calls ==
    {[fn |-> "point_from_integer", width |-> w, height |-> h, x |-> x] :
        w \in 0..MaxWidth, h \in 0..MaxHeight, x \in 0..(MaxWidth * MaxHeight + 1)}

\* the points of size.points(), for every size with a cell
neighbor_points_calls ==
    UNION {{[fn |-> "neighbor_points", width |-> size.width,
             height |-> size.height, point |-> point] :
               point \in Range(size_points(size))} : size \in sizes}

sample_points_calls ==
    {[fn |-> "sample_points", width |-> size.width, height |-> size.height,
      n |-> n, disallowed |-> disallowed, disallowed_radius |-> radius] :
        size \in sizes, n \in 0..MaxSample,
        disallowed \in (0..MaxHeight) \X (0..MaxWidth), radius \in 0..MaxRadius}

\* points up to one row below and one column right of the largest board
call_points == (0..MaxHeight) \X (0..MaxWidth)

point_is_in_bounds_calls ==
    {[fn |-> "point_is_in_bounds", width |-> size.width, height |-> size.height,
      point |-> point] : size \in sizes, point \in call_points}

mine_lists == UNION {[1..n -> call_points] : n \in 0..MaxMines}

new_with_mines_calls ==
    {[fn |-> "new_with_mines", width |-> size.width, height |-> size.height,
      mines |-> mines] : size \in sizes, mines \in mine_lists}

fn_calls ==
    new_from_ints_calls \cup point_from_integer_calls \cup neighbor_points_calls
        \cup sample_points_calls \cup point_is_in_bounds_calls
        \cup new_with_mines_calls

InitFn ==
    /\ args \in fn_calls
    /\ out = <<>>
    /\ idle_mc
    /\ idle_solver
    /\ idle_agent
    /\ idle_loop

\* Board::new_from_ints(width, height, mine_count)
NewFromInts ==
    /\ args.fn = "new_from_ints"
    /\ out = <<>>
    /\ out' = <<new_from_ints(args.width, args.height, args.mine_count)>>
    /\ UNCHANGED args
    /\ UNCHANGED mc_vars
    /\ UNCHANGED solver_vars
    /\ UNCHANGED agent_vars
    /\ UNCHANGED loop_vars

\* BoardSize{width, height}.point_from_integer(x)
PointFromInteger ==
    /\ args.fn = "point_from_integer"
    /\ out = <<>>
    /\ out' = <<point_from_integer([width |-> args.width, height |-> args.height],
                                   args.x)>>
    /\ UNCHANGED args
    /\ UNCHANGED mc_vars
    /\ UNCHANGED solver_vars
    /\ UNCHANGED agent_vars
    /\ UNCHANGED loop_vars

\* Board::new_from_ints(width, height, 0).unwrap().neighbor_points(&point)
NeighborPoints ==
    /\ args.fn = "neighbor_points"
    /\ out = <<>>
    /\ out' = <<neighbor_points(new_from_ints(args.width, args.height, 0).val,
                                args.point)>>
    /\ UNCHANGED args
    /\ UNCHANGED mc_vars
    /\ UNCHANGED solver_vars
    /\ UNCHANGED agent_vars
    /\ UNCHANGED loop_vars

\* sample_points(&size, n, &disallowed, disallowed_radius)
SamplePoints ==
    /\ args.fn = "sample_points"
    /\ out = <<>>
    /\ \E sampled \in sample_points([width |-> args.width, height |-> args.height],
                                    args.n, args.disallowed, args.disallowed_radius) :
          out' = <<sampled>>
    /\ UNCHANGED args
    /\ UNCHANGED mc_vars
    /\ UNCHANGED solver_vars
    /\ UNCHANGED agent_vars
    /\ UNCHANGED loop_vars

\* size.point_is_in_bounds(&point)
PointIsInBounds ==
    /\ args.fn = "point_is_in_bounds"
    /\ out = <<>>
    /\ out' = IF args.width = 0 THEN <<Panicked(panic_rem)>>
              ELSE <<Returned(point_is_in_bounds([width |-> args.width,
                                                  height |-> args.height],
                                                 args.point))>>
    /\ UNCHANGED args
    /\ UNCHANGED mc_vars
    /\ UNCHANGED solver_vars
    /\ UNCHANGED agent_vars
    /\ UNCHANGED loop_vars

\* Board::new_with_mines(size, &mines)
NewWithMines ==
    /\ args.fn = "new_with_mines"
    /\ out = <<>>
    /\ out' = <<new_with_mines_call([width |-> args.width, height |-> args.height],
                                    args.mines)>>
    /\ UNCHANGED args
    /\ UNCHANGED mc_vars
    /\ UNCHANGED solver_vars
    /\ UNCHANGED agent_vars
    /\ UNCHANGED loop_vars

NextFn ==
    \/ NewFromInts
    \/ PointFromInteger
    \/ NeighborPoints
    \/ SamplePoints
    \/ PointIsInBounds
    \/ NewWithMines

SpecFn == InitFn /\ [][NextFn]_vars

---------------------------------------------------------------------------
(* The estimator and the solver are separate programs over separate state; *)
(* a behaviour runs one of them while the other stays idle.                *)

Init == InitMC \/ InitSolver

Next == NextMC \/ NextSolver

Spec == Init /\ [][Next]_vars

---------------------------------------------------------------------------
(* Claims about the estimator and its backtracking frontier.               *)

\* a rollout has completed: the outermost backtracking_search returned Some(mined)
rollout_completed == pc = "return" /\ stack = <<>> /\ ret.some

mined_points == Range(ret.val)

frontier_set == Range(frontier_points(board))

\* C1 (as stated): in every completed rollout the number of frontier cells
\* assigned mine equals remaining_mines() of the board the frontier was built from.
C1_Conservation ==
    rollout_completed => Len(ret.val) = remaining_mines(board)

\* C1 (amended): in every completed rollout the number of frontier cells
\* assigned mine is at most remaining_mines() of the board.
C1_AtMostRemaining ==
    rollout_completed =>
        /\ Len(ret.val) = Cardinality(mined_points)
        /\ mined_points \subseteq frontier_set
        /\ Len(ret.val) <= remaining_mines(board)

\* C1 witness: a rollout completed that assigned a mine to a frontier cell
C1_Witness == rollout_completed /\ Len(ret.val) >= 1

\* the known, unmined cells with at least one Unknown neighbour
constraining_cells(b) ==
    {p \in Range(size_points(b.size)) :
        /\ is_known_unmined(retrieve_cell(b, p))
        /\ Len(unknown_neighbors(b, p)) >= 1}

\* C2: in every completed rollout, every known unmined cell with an unknown
\* neighbour has exactly mined_neighbor_count - (assumed mined neighbours) of
\* its unknown neighbours assigned mine.
C2_LocalConsistency ==
    rollout_completed =>
        \A p \in constraining_cells(board) :
            Cardinality(Range(unknown_neighbors(board, p)) \cap mined_points)
                = retrieve_cell(board, p).mined_neighbor_count
                    - count_assumed_mined_neighbors(board, p)

\* C3: when remaining_mines() equals the (positive) number of frontier cells,
\* no rollout fails, every completed rollout assigns mine to every frontier
\* cell, and the estimator returns probability 1 for each of them.
C3_AllMines ==
    (remaining_mines(board) = Len(frontier_points(board))
        /\ Len(frontier_points(board)) >= 1) =>
            /\ pc # panic_none
            /\ rollout_completed => mined_points = frontier_set
            /\ pc = "done" => \A p \in frontier_set :
                                 p \in DOMAIN result /\ result[p] = <<rollouts, rollouts>>

\* C4: when no mine remains to be found on the board, the search still
\* succeeds and assigns empty to every frontier cell.
C4_NoMinesLeft ==
    remaining_mines(board) = 0 =>
        /\ pc # panic_none
        /\ rollout_completed => ret.val = <<>>

\* C10: every counter is between 0 and the number of completed rollouts, and
\* every reported probability is its cell's counter over the number of
\* completed rollouts.
C10_ProbabilityBounds ==
    /\ \A p \in DOMAIN counts : 0 <= counts[p] /\ counts[p] <= rollout_i
    /\ pc = "done" =>
          \A p \in DOMAIN result :
              LET c == IF p \in DOMAIN counts THEN counts[p] ELSE 0
              IN /\ result[p] = <<c, rollout_i>>
                 /\ 0 <= result[p][1] /\ result[p][1] <= result[p][2]
                 /\ result[p][2] > 0

\* C10 witness: the estimator returned a map with a cell it counted as a mine
\* in some rollouts
C10_Witness ==
    pc = "done" /\ \E p \in DOMAIN result : result[p][1] > 0


---------------------------------------------------------------------------
(* Claims about ConstraintSolver.                                          *)

backtrack_returned == spc = "returned"

\* the lookup in which the variables of the map a hold their value of a
with_values(lookup, a) ==
    [v \in DOMAIN lookup |->
        IF v \in DOMAIN a THEN [lookup[v] EXCEPT !.value = Some(a[v])] ELSE lookup[v]]

tally(lookup) ==
    [t \in BOOLEAN |-> Cardinality({v \in DOMAIN lookup : lookup[v].value = Some(t)})]

\* every constraint handed to new passes on the lookup
all_constraints_pass(lookup) ==
    \A k \in DOMAIN constraints : check_constraint(constraints[k], tally(lookup), lookup)

unassigned(lookup) == {v \in DOMAIN lookup : ~lookup[v].value.some}

\* brute force: some way to give every unassigned variable a value of its
\* domain makes every constraint pass
has_completion(lookup) ==
    \E a \in [unassigned(lookup) -> BOOLEAN] :
        /\ \A v \in unassigned(lookup) : a[v] \in Range(lookup[v].possible)
        /\ all_constraints_pass(with_values(lookup, a))

\* C5: when backtrack returns Some(assignment), the assignment's keys are
\* exactly the variable ids, every value is in its variable's domain, and
\* every constraint handed to new, the global one included, passes
\* check_constraint on the final state.
C5_SomeIsSolution ==
    (backtrack_returned /\ sret.some) =>
        /\ DOMAIN sret.val = DOMAIN variable_lookup
        /\ \A v \in DOMAIN sret.val : sret.val[v] \in Range(variable_lookup[v].possible)
        /\ \A k \in DOMAIN constraints :
              check_constraint(constraints[k], global_counts, variable_lookup)

\* C6: backtrack returns None only when no assignment of domain values to
\* all the variables satisfies every constraint.
C6_NoneOnlyIfUnsatisfiable ==
    (backtrack_returned /\ ~sret.some) =>
        ~has_completion(new_variable_lookup(variables))

\* C7: after the tentative assignment to v, forward checking asks only for
\* the variables other than v, and it rejects only when no completion of
\* the current partial assignment satisfies all the constraints.
C7_ForwardCheckSound ==
    spc = "check" =>
        LET v_id == sstack[Len(sstack)].v_id
        IN /\ v_id \notin forward_checked_ids(variable_to_constraints, v_id)
           /\ ~forward_check(variable_lookup, variable_to_constraints, v_id)
                 => ~has_completion(variable_lookup)

\* set_variable_state(v, Some(s)) followed by set_variable_state(v, None)
set_then_undo(v_id, s) ==
    LET set == set_variable_state(variable_lookup, global_counts, v_id, Some(s))
    IN set_variable_state(set.variable_lookup, set.global_counts, v_id, None)

\* the assignments the programs can make in the current state
solver_assignments ==
    {<<v, s>> \in (DOMAIN variable_lookup) \X BOOLEAN :
        ~variable_lookup[v].value.some /\ s \in Range(variable_lookup[v].possible)}

frontier_assignments ==
    {<<point, mine>> \in (Range(frontier.points)) \X BOOLEAN :
        ~(overflow_checks /\ update_point_underflows(frontier, point, mine))}

\* C8 as stated: assigning and then undoing restores global_counts exactly,
\* the set of its keys included, and update_point followed by undo_update
\* restores every tally of the frontier.
C8_UndoRestoresExactly ==
    /\ \A a \in solver_assignments :
          /\ set_then_undo(a[1], a[2]).global_counts = global_counts
          /\ set_then_undo(a[1], a[2]).variable_lookup = variable_lookup
    /\ \A a \in frontier_assignments :
          undo_update(update_point(frontier, a[1], a[2]), a[1], a[2]) = frontier

\* C8, amended: assigning and then undoing restores the count of every value
\* (a value without a key counting as 0) and the variable's value, and
\* update_point followed by undo_update restores every tally of the
\* frontier; the key of the assigned value stays in global_counts.
C8_UndoRestoresCounts ==
    /\ \A a \in solver_assignments :
          /\ \A t \in BOOLEAN :
                count_of(set_then_undo(a[1], a[2]).global_counts, t)
                    = count_of(global_counts, t)
          /\ DOMAIN set_then_undo(a[1], a[2]).global_counts
                = DOMAIN global_counts \cup {a[2]}
          /\ set_then_undo(a[1], a[2]).variable_lookup = variable_lookup
    /\ \A a \in frontier_assignments :
          undo_update(update_point(frontier, a[1], a[2]), a[1], a[2]) = frontier

\* the search has undone an assignment: a value is counted zero times under a
\* key that is present, with a variable still to assign
C8_Witness ==
    /\ spc = "for"
    /\ solver_assignments # {}
    /\ \E t \in DOMAIN global_counts : global_counts[t] = 0

\* C9: with DegreeSelectionStrategy, two runs of backtrack on solvers built
\* from the same variables and constraints return the same assignment,
\* whatever order the variable map iterates in.
C9_Deterministic ==
    selection_strategy = "Degree" =>
        \A i, j \in DOMAIN runs : runs[i] = runs[j]


---------------------------------------------------------------------------
(* Further claims about the estimator.                                     *)

\* the frontier cells that a constraint built from the board holds to a mine
\* budget of 0
zero_budget_points ==
    {point \in Range(frontier_points(board)) :
        \E k \in DOMAIN from_board(board).constraints :
            /\ point \in from_board(board).constraints[k].constrained_points
            /\ from_board(board).constraints[k].missing_mines = 0}

\* C11: a frontier cell constrained by a local constraint whose mine budget
\* is 0 is assigned "mine" in no completed rollout, and the probability
\* returned for it is 0.
C11_ZeroBudgetNeverMine ==
    /\ rollout_completed => \A point \in zero_budget_points : point \notin mined_points
    /\ pc = "done" =>
          \A point \in zero_budget_points :
              /\ point \in DOMAIN result
              /\ result[point] = <<0, rollouts>>

\* the estimator has returned probabilities for a board with such a cell
C11_Witness ==
    /\ pc = "done"
    /\ zero_budget_points # {}


\* the cells whose knowledge is Unknown that have a Known neighbour
unknown_frontier_cells ==
    {p \in Range(size_points(board.size)) :
        /\ retrieve_cell(board, p).knowledge = "Unknown"
        /\ \E q \in Range(neighbor_points(board, p)) :
              retrieve_cell(board, q).knowledge = "Known"}

\* C12: the probability map returned by the estimator has exactly the Unknown
\* cells with a Known neighbour as its keys; flagged cells, known cells and
\* unknown cells without a known neighbour are not among them.
C12_KeysAreFrontier ==
    pc = "done" => DOMAIN result = unknown_frontier_cells


search_exhausted == pc = "return" /\ stack = <<>> /\ ~ret.some

\* C13: when a rollout's search returns no solution the estimator ends with
\* the panic "got a none back": the failed rollout is not counted, no
\* probability map is produced, nothing runs afterwards (no retry), and a map
\* that is returned divides by rollouts that all completed.
C13_ExhaustionIsFatal ==
    /\ [][/\ search_exhausted =>
                /\ pc' = panic_none
                /\ UNCHANGED <<counts, rollout_i, result>>
          /\ pc # panic_none]_vars
    /\ [](pc = panic_none => result = <<>>)
    /\ [](pc = "done" => rollout_i = rollouts)

\* a rollout's search has come back with None and the estimator has panicked
C13_Witness ==
    /\ pc = panic_none
    /\ ~ret.some
    /\ rollout_i < rollouts


\* a budget of the snapshot would be negative: remaining_mines() < 0, a
\* revealed cell with fewer mined neighbours than assumed-mined ones, or with
\* more missing mines than unknown neighbours
encoding_inconsistent(b) ==
    \/ remaining_mines(b) < 0
    \/ build_constraints_underflows(b, known_border_points(b))

\* C14: on a snapshot that would make a budget negative, building the
\* frontier aborts the rollout with an error: no search ever starts from a
\* frontier whose budget was clamped to 0 or wrapped.
C14_InconsistencyAborts ==
    encoding_inconsistent(board) => pc \in {"idle", "loop", panic_overflow}


---------------------------------------------------------------------------
(* Further claims about ConstraintSolver.                                  *)

\* a constraint handed to new names an id that is no key of variable_lookup
references_absent_id ==
    \E k \in DOMAIN constraints :
        \E j \in DOMAIN get_constrained_variable_ids(constraints[k]) :
            get_constrained_variable_ids(constraints[k])[j] \notin DOMAIN variable_lookup

\* C15: when a constraint references a variable id that is absent from
\* variable_lookup the solver fails fast: backtrack never goes on to return
\* an assignment as if the id were not there.
C15_LookupFailsFast ==
    references_absent_id => ~(backtrack_returned /\ sret.some)


---------------------------------------------------------------------------
(* Claims about the estimator's scheduling.                                *)

count_at(c, p) == IF p \in DOMAIN c THEN c[p] ELSE 0

\* this step merges a completed rollout: every cell of its mined list gains
\* one, no other cell changes, and the rollout counter gains one
merges_once ==
    /\ rollout_completed
    /\ rollout_i' = rollout_i + 1
    /\ \A p \in frontier_set :
          count_at(counts', p) = count_at(counts, p) + (IF p \in mined_points THEN 1 ELSE 0)
    /\ DOMAIN counts' \subseteq frontier_set

\* C16 as stated: several workers run the rollouts, and the shared counters
\* gain each completed rollout exactly once.
C16_WorkersMergeOnce ==
    /\ [](pc \in {"call", "for", "return"} => Cardinality(workers) > 1)
    /\ [][(counts' # counts \/ rollout_i' # rollout_i) => merges_once]_vars

\* C16, amended: the rollouts run one after the other in the caller's
\* thread; the counter map and the rollout counter change only when a
\* completed rollout is merged, and then by exactly that rollout.
C16_SequentialMergeOnce ==
    /\ [](Cardinality(workers) = 1)
    /\ [][(counts' # counts \/ rollout_i' # rollout_i) => merges_once]_vars
    /\ [][rollout_completed => merges_once]_vars

\* two completed rollouts have both counted the same cell
C16_Witness ==
    /\ rollout_i >= 2
    /\ \E p \in DOMAIN counts : counts[p] >= 2


\* the deadline of the estimator: the last instant of the clock
deadline_elapsed == now = MaxTime

rollout_starts == pc = "loop" /\ pc' = "call"

\* C17 as stated: the estimator performs rollouts until the deadline has
\* elapsed, so it returns only once the deadline has elapsed, and it starts
\* no new rollout after the deadline.
C17_RunsUntilDeadline ==
    /\ [](pc = "done" => deadline_elapsed)
    /\ [][rollout_starts => ~deadline_elapsed]_vars

\* C17, amended: the estimator performs rollouts (build, solve, merge) one
\* after the other until it has completed the fixed number of them, whatever
\* the clock says; it starts no rollout beyond that number and then returns
\* at once.
C17_RunsFixedRollouts ==
    /\ [](pc = "done" => rollout_i = rollouts)
    /\ [][rollout_starts => rollout_i < rollouts]_vars
    /\ [][(pc = "loop" /\ rollout_i = rollouts /\ pc' # pc) => pc' = "done"]_vars
    /\ [][now' # now => UNCHANGED mc_vars]_vars

\* the estimator has returned although the clock has not reached its last instant
C17_Witness ==
    /\ pc = "done"
    /\ rollout_i = rollouts
    /\ ~deadline_elapsed


---------------------------------------------------------------------------
(* Claims about the agent.                                                 *)

\* what the sleep of generate_move has to be for the time the computation took
remainder_slept ==
    IF elapsed >= move_delay THEN slept = <<>> /\ returned_at = start + elapsed
    ELSE slept = <<move_delay - elapsed>>

\* C18 (as stated): every move generate_move hands out, a queued one
\* included, is returned no earlier than move_delay after the call began;
\* a computation of at least move_delay is followed by no wait, a shorter
\* one by a sleep of exactly move_delay - elapsed.
C18_EveryMoveThrottled ==
    /\ apc \in {"popped", "returned"} => returned_at - start >= move_delay
    /\ apc = "returned" => remainder_slept

\* C18 (amended): every move handed out by a call of generate_move that
\* found its queue empty and computed new moves is returned no earlier than
\* move_delay after the call began; a computation of at least move_delay is
\* followed by no wait, a shorter one by a sleep of exactly
\* move_delay - elapsed.  A queued move is returned at once.
C18_ComputedMoveThrottled ==
    /\ apc = "returned" => returned_at - start >= move_delay /\ remainder_slept
    /\ apc = "popped" => returned_at = start /\ slept = <<>>

\* a computed move that was held back for a part of move_delay
C18_Witness ==
    /\ apc = "returned"
    /\ surfaced.some
    /\ elapsed > 0
    /\ slept = <<move_delay - elapsed>>

\* the frontier cells the estimator is certain of
certain_points == {p \in DOMAIN result : result[p][1] = 0 \/ result[p][1] = result[p][2]}

\* C19: when the estimator gave some cell the probability 0 or 1, the
\* actions of generate_next_moves are Flags of cells of probability 1 and
\* Clicks of cells of probability 0 only; a cell of a probability strictly
\* between is moved on only when no cell has probability 0 or 1.
C19_DeterministicFirst ==
    (apc = "computed" /\ pc = "done") =>
        \A k \in DOMAIN move_queue :
            LET action == move_queue[k]
                count == result[action.point][1]
                n == result[action.point][2]
            IN /\ action.point \in DOMAIN result
               /\ certain_points # {} =>
                     \/ action.type = "Flag" /\ count = n
                     \/ action.type = "Click" /\ count = 0
               /\ (0 < count /\ count < n) => certain_points = {}

\* the estimator returned both certain and uncertain cells and
\* generate_next_moves has made its actions of them
C19_Witness ==
    /\ apc = "computed"
    /\ pc = "done"
    /\ move_queue # <<>>
    /\ certain_points # {}
    /\ \E p \in DOMAIN result : 0 < result[p][1] /\ result[p][1] < result[p][2]

---------------------------------------------------------------------------
(* Claims about the board.                                                 *)

\* the cells of the board at which b and c differ
changed_cells(b, c) == {i \in DOMAIN b.field : b.field[i] # c.field[i]}

toggled_knowledge(k) ==
    IF k = "Unknown" THEN "Flag" ELSE IF k = "Flag" THEN "Unknown" ELSE "Known"

\* C20: toggle_flag takes Unknown to Flag, Flag to Unknown and leaves Known
\* alone, changing neither content nor mined_neighbor_count nor any other
\* cell; toggling a cell twice gives back the cell.
C20_ToggleFlag ==
    /\ [](\A i \in DOMAIN board.field :
            /\ toggle_flag(board.field[i]).knowledge
                  = toggled_knowledge(board.field[i].knowledge)
            /\ toggle_flag(toggle_flag(board.field[i])) = board.field[i])
    /\ [][ToggleFlag => \A i \in changed_cells(board, board') :
            /\ Cardinality(changed_cells(board, board')) = 1
            /\ board'.field[i].knowledge = toggled_knowledge(board.field[i].knowledge)
            /\ board'.field[i].content = board.field[i].content
            /\ board'.field[i].mined_neighbor_count = board.field[i].mined_neighbor_count
            /\ board'.field[i].point = board.field[i].point]_vars

\* a board on which flags have been toggled: a cell that is empty and
\* flagged next to a revealed cell, and a mine that lost its flag
C20_Witness ==
    /\ pc = "idle"
    /\ \E i \in DOMAIN board.field :
          board.field[i].knowledge = "Flag" /\ board.field[i].content = "Empty"
    /\ \E i \in DOMAIN board.field : board.field[i].knowledge = "Known"
    /\ Cardinality({i \in DOMAIN board.field : board.field[i].knowledge = "Flag"}) = 3


\* the cells that are flagged or are revealed mines
flagged_or_revealed_mines(b) ==
    {i \in DOMAIN b.field :
        \/ b.field[i].knowledge = "Flag"
        \/ b.field[i].knowledge = "Known" /\ b.field[i].content = "Mine"}

flagged(b) == {i \in DOMAIN b.field : b.field[i].knowledge = "Flag"}

\* C22: after any sequence of flag and reveal operations found_mines is the
\* number of cells that are flagged or are revealed mines, and
\* remaining_mines is mine_count minus that number as a signed value, which
\* is negative when more cells are flagged than there are mines.
C22_FoundMines ==
    /\ found_mines(board) = Cardinality(flagged_or_revealed_mines(board))
    /\ remaining_mines(board)
          = board.mine_count - Cardinality(flagged_or_revealed_mines(board))
    /\ Cardinality(flagged(board)) > board.mine_count => remaining_mines(board) < 0

\* after a probe: a revealed mine, a flag on an empty cell, and more cells
\* flagged than there are mines
C22_Witness ==
    /\ args.fn = "probe"
    /\ \E i \in DOMAIN board.field :
          board.field[i].knowledge = "Known" /\ board.field[i].content = "Mine"
    /\ \E i \in DOMAIN board.field :
          board.field[i].knowledge = "Flag" /\ board.field[i].content = "Empty"
    /\ Cardinality(flagged(board)) > board.mine_count
    /\ remaining_mines(board) < 0

\* every mined cell is flagged or revealed
every_mine_identified(b) ==
    \A i \in DOMAIN b.field :
        b.field[i].content = "Mine" => b.field[i].knowledge # "Unknown"

\* C30: is_won is true exactly when every mined cell is flagged or revealed;
\* a flag on an empty cell never makes it true while a mine is unidentified.
C30_IsWon == is_won(board) <=> every_mine_identified(board)

---------------------------------------------------------------------------
(* Claims about the functions of BoardSize and Board.                      *)

returned(fn) == args.fn = fn /\ out # <<>>

\* a point of the board: the row below height, the column below width
on_board(size, point) == point[1] < size.height /\ point[2] < size.width

\* C21: new_from_ints returns None exactly when mine_count > width*height;
\* otherwise a board that is not initialized, holds the given mine_count,
\* width and height, and has width*height cells whose points are pairwise
\* distinct and on the board, every cell Unknown and Empty.
C21_NewFromInts ==
    returned("new_from_ints") =>
        LET made == out[1]
            b == made.val
        IN /\ ~made.some <=> args.mine_count > args.width * args.height
           /\ made.some =>
                 /\ ~b.initialized
                 /\ b.mine_count = args.mine_count
                 /\ b.size.width = args.width
                 /\ b.size.height = args.height
                 /\ Len(b.field) = args.width * args.height
                 /\ \A i, j \in DOMAIN b.field :
                       i # j => b.field[i].point # b.field[j].point
                 /\ \A i \in DOMAIN b.field :
                       /\ on_board(b.size, b.field[i].point)
                       /\ b.field[i].knowledge = "Unknown"
                       /\ b.field[i].content = "Empty"

\* a board that is not square and as full of mines as it can be
C21_Witness ==
    /\ returned("new_from_ints")
    /\ out[1].some
    /\ args.width > args.height
    /\ args.height > 1
    /\ args.mine_count = args.width * args.height


clipped_neighborhood(size, point) ==
    {q \in (0..size.height) \X (0..size.width) :
        on_board(size, q) /\ distance(point, q) = 1}

\* C23: on every board size, square or not, neighbor_points(p) of a point p
\* of the board is exactly the points of the board at Chebyshev distance 1
\* from p, each once, and never a point off the board.
C23_NeighborPoints ==
    returned("neighbor_points") =>
        LET size == [width |-> args.width, height |-> args.height]
            neighbors == out[1]
        IN /\ Range(neighbors) = clipped_neighborhood(size, args.point)
           /\ Cardinality(Range(neighbors)) = Len(neighbors)
           /\ \A k \in DOMAIN neighbors : on_board(size, neighbors[k])


\* the points of the board farther than radius from the disallowed point
far_points(size, disallowed, radius) ==
    {q \in (0..size.height) \X (0..size.width) :
        on_board(size, q) /\ distance(disallowed, q) > radius}

\* C25: sample_points returns Some(points) with exactly n pairwise distinct
\* points of the board, each at Chebyshev distance greater than radius from
\* the disallowed point, whenever the board has at least n such points, and
\* None otherwise.
C25_SamplePoints ==
    returned("sample_points") =>
        LET size == [width |-> args.width, height |-> args.height]
            far == far_points(size, args.disallowed, args.disallowed_radius)
            sampled == out[1]
        IN /\ sampled.some <=> Cardinality(far) >= args.n
           /\ sampled.some =>
                 /\ Len(sampled.val) = args.n
                 /\ Cardinality(Range(sampled.val)) = args.n
                 /\ Range(sampled.val) \subseteq far

\* a sample of several points around a disallowed point of the board
C25_Witness ==
    /\ returned("sample_points")
    /\ out[1].some
    /\ args.n >= 2
    /\ on_board([width |-> args.width, height |-> args.height], args.disallowed)
    /\ args.disallowed_radius >= 1

---------------------------------------------------------------------------
(* Claims about the state of the solver during a search.                   *)

\* the ids of the variables that hold a value
some_valued == {v \in DOMAIN variable_lookup : variable_lookup[v].value.some}

all_indices == 0..(Len(remaining_points) - 1)

\* the ids of the variables whose index is out of available_indices
removed_ids == {remaining_points[i + 1] : i \in all_indices \ available_indices}

\* C26: at every entry to and return from _backtrack the variables whose
\* value is Some are exactly those whose index has been removed from
\* available_indices on the current search path; when backtrack() returns
\* None every value is None and every index is back; no variable's domain
\* (possible) is ever modified.
C26_ValuesFollowPath ==
    /\ spc \in {"call", "return"} =>
          /\ some_valued = removed_ids
          /\ spc = "call" =>
                all_indices \ available_indices = {sstack[k].index : k \in DOMAIN sstack}
    /\ (spc = "returned" /\ ~sret.some) =>
          /\ some_valued = {}
          /\ available_indices = all_indices
    /\ \A k \in DOMAIN variables :
          variable_lookup[variables[k].id].possible = variables[k].possible

\* a nested activation has returned None to a caller whose own variable
\* still holds its value, another variable having been reset
C26_Witness ==
    /\ spc = "return"
    /\ ~sret.some
    /\ sstack # <<>>
    /\ some_valued # {}
    /\ some_valued # DOMAIN variable_lookup

\* the number of variables that hold Some(t)
holding(t) ==
    Cardinality({v \in DOMAIN variable_lookup : variable_lookup[v].value = Some(t)})

\* C27: in every state reached during backtrack(), for every value t the
\* entry global_counts[t], taken as 0 when absent, is the number of
\* variables of variable_lookup whose value is Some(t).
C27_CountsMatchValues ==
    \A t \in BOOLEAN : count_of(global_counts, t) = holding(t)

\* both values are held, and a value tried before has been taken back
C27_Witness ==
    /\ spc = "check"
    /\ holding(TRUE) >= 1
    /\ holding(FALSE) >= 1
    /\ sstack[Len(sstack)].states = <<>>

\* the number of constraints that name the variable id
attached(v_id) ==
    Cardinality({k \in DOMAIN constraints :
                    v_id \in Range(get_constrained_variable_ids(constraints[k]))})

\* the indices of remaining_points whose variable holds no value
unassigned_indices == {i \in all_indices : ~variable_lookup[remaining_points[i + 1]].value.some}

\* C29: a selection strategy returns None exactly when no unassigned
\* variable remains and otherwise the index of an unassigned variable;
\* DegreeSelectionStrategy returns one whose number of attached constraints
\* is maximal among the unassigned variables.
C29_SelectsUnassigned ==
    spc = "call" =>
       \A next \in get_next_index(selection_strategy, variable_to_constraints,
                                   remaining_points, available_indices) :
          /\ ~next.some <=> unassigned_indices = {}
          /\ next.some =>
                /\ next.val \in unassigned_indices
                /\ selection_strategy = "Degree" =>
                      \A j \in unassigned_indices :
                         attached(remaining_points[j + 1])
                            <= attached(remaining_points[next.val + 1])

\* the degree strategy chooses among two unassigned variables of
\* different degree
C29_Witness ==
    /\ spc = "call"
    /\ selection_strategy = "Degree"
    /\ \E i, j \in unassigned_indices :
          attached(remaining_points[i + 1]) < attached(remaining_points[j + 1])

---------------------------------------------------------------------------
(* Claims about the budgets of the frontier during a search.               *)

\* every budget counter of g is at most the counter of f it came from
budgets_at_most(g, f) ==
    /\ g.missing_mines <= f.missing_mines
    /\ \A k \in DOMAIN f.constraints :
          /\ g.constraints[k].missing_mines <= f.constraints[k].missing_mines
          /\ g.constraints[k].missing_empties <= f.constraints[k].missing_empties

\* the frontier as each activation on the search path found it: the
\* frontier with the assignments of the activations above it undone
RECURSIVE frontier_at(_)
frontier_at(depth) ==
    IF depth = Len(stack) THEN frontier
    ELSE undo_update(frontier_at(depth + 1), stack[depth + 1].point, stack[depth + 1].state)

\* C28: for a frontier built from a consistent board, no budget counter
\* (the frontier's missing_mines, a constraint's missing_mines or
\* missing_empties) is decremented below 0 during backtracking_search, and
\* the counters only decrease as assignments are added along a search path.
C28_BudgetsStayInRange ==
    /\ [](~encoding_inconsistent(board) =>
            /\ (pc = "for" /\ stack[Len(stack)].possible # <<>>) =>
                  ~update_point_underflows(frontier, stack[Len(stack)].point,
                                           Head(stack[Len(stack)].possible))
            /\ pc = "call" =>
                  \A depth \in 0..(Len(stack) - 1) :
                     budgets_at_most(frontier_at(depth + 1), frontier_at(depth)))
    /\ [][(~encoding_inconsistent(board) /\ pc = "for" /\ pc' = "call") =>
            budgets_at_most(frontier', frontier)]_vars

\* two assignments deep on a consistent board, one of them a mine: the
\* frontier's budget and a constraint's budget are below what from_board
\* gave them
C28_Witness ==
    /\ ~encoding_inconsistent(board)
    /\ pc = "call"
    /\ Len(stack) >= 2
    /\ frontier.missing_mines < from_board(board).missing_mines
    /\ \E k \in DOMAIN frontier.constraints :
          \/ frontier.constraints[k].missing_mines
                < from_board(board).constraints[k].missing_mines
          \/ frontier.constraints[k].missing_empties
                < from_board(board).constraints[k].missing_empties

---------------------------------------------------------------------------
(* Claims about the operations of the board.                               *)

board_points == Range(size_points(board.size))

neighbors_of(point) == Range(neighbor_points(board, point))

\* the condition under which the claim has chord probe the neighbours
chord_applies(point) ==
    /\ retrieve_cell(board, point).knowledge = "Known"
    /\ Cardinality({q \in neighbors_of(point) :
                       \/ retrieve_cell(board, q).knowledge = "Flag"
                       \/ /\ retrieve_cell(board, q).knowledge = "Known"
                          /\ retrieve_cell(board, q).content = "Mine"})
          = retrieve_cell(board, point).mined_neighbor_count

\* C31: chord(p) probes every neighbour of p only when p is Known and the
\* number of its assumed-mined neighbours equals its mined_neighbor_count
\* (no neighbour is Unknown afterwards, and the mines revealed are counted);
\* in every other case it returns 0 and leaves every cell unchanged.
C31_Chord ==
    \A point \in board_points :
       LET chorded == chord(board, point)
       IN IF chord_applies(point)
          THEN /\ \A q \in neighbors_of(point) :
                     retrieve_cell(chorded.board, q).knowledge
                        = IF retrieve_cell(board, q).knowledge = "Unknown"
                          THEN "Known" ELSE retrieve_cell(board, q).knowledge
               /\ chorded.hits
                     = Cardinality({q \in neighbors_of(point) :
                          /\ retrieve_cell(chorded.board, q).content = "Mine"
                          /\ retrieve_cell(chorded.board, q).knowledge = "Known"})
          ELSE /\ chorded.hits = 0
               /\ chorded.board = board

\* a chord has revealed a mine, and on the board it left there are a cell
\* where chord would probe a hidden neighbour and a hidden cell with a
\* matching count where it does nothing
C31_Witness ==
    /\ args.fn = "chord"
    /\ out # <<0>>
    /\ \E point \in board_points :
          /\ chord_applies(point)
          /\ chord(board, point).board # board
    /\ \E point \in board_points :
          /\ retrieve_cell(board, point).knowledge # "Known"
          /\ count_assumed_mined_neighbors(board, point)
                = retrieve_cell(board, point).mined_neighbor_count

\* every flag of the board sits on a mine
flags_on_mines ==
    \A point \in board_points :
       retrieve_cell(board, point).knowledge = "Flag"
          => retrieve_cell(board, point).content = "Mine"

\* C32: deterministic moves are sound: if every flag on the board sits on a
\* real mine, every point returned by known_safe_flags is a cell whose
\* content is Mine and every point returned by known_safe_clicks is a cell
\* whose content is Empty.
C32_DeterministicMovesSound ==
    (flags_on_mines /\ ~safe_moves_underflow(board)) =>
       /\ \A point \in Range(known_safe_flags(board)) :
             retrieve_cell(board, point).content = "Mine"
       /\ \A point \in Range(known_safe_clicks(board)) :
             retrieve_cell(board, point).content = "Empty"

\* a hidden empty cell without a mined neighbour: the flood goes on from it
spreads(point) ==
    /\ retrieve_cell(board, point).content = "Empty"
    /\ retrieve_cell(board, point).knowledge # "Known"
    /\ retrieve_cell(board, point).mined_neighbor_count = 0

\* the points reached from the points of S
RECURSIVE flood(_)
flood(S) ==
    LET more == S \cup UNION {neighbors_of(point) : point \in {q \in S : spreads(q)}}
    IN IF more = S THEN S ELSE flood(more)

knowledge_at(b, point) == retrieve_cell(b, point).knowledge

\* what the claim says of probe apart from the value returned: the cells
\* that change are the Unknown cells the flood reaches from the point, they
\* become Known, and none of them but the point itself is a mine
probe_reveals_flood(point) ==
    LET probed == probe_initialized(board, point)
    IN /\ \A q \in board_points :
             knowledge_at(probed.board, q)
                = IF q \in flood({point}) /\ knowledge_at(board, q) = "Unknown"
                  THEN "Known" ELSE knowledge_at(board, q)
       /\ \A q \in board_points \ {point} :
             (retrieve_cell(board, q).content = "Mine")
                => knowledge_at(probed.board, q) = knowledge_at(board, q)
       /\ \A i \in DOMAIN board.field :
             probed.board.field[i]
                = [board.field[i] EXCEPT !.knowledge = probed.board.field[i].knowledge]

not_known_unmined(point) ==
    {q \in neighbors_of(point) :
        ~(knowledge_at(board, q) = "Known" /\ retrieve_cell(board, q).content = "Empty")}

\* C37: Known is absorbing: across any sequence of toggle_flag, probe, chord
\* and flag_neighbors actions a cell that has become Known stays Known;
\* flag_neighbors only turns Unknown neighbours into Flag, and only when the
\* number of not-known-unmined neighbours equals the cell's
\* mined_neighbor_count.
C37_KnownIsAbsorbing ==
    /\ [][\A i \in DOMAIN board.field :
             board.field[i].knowledge = "Known" => board'.field[i].knowledge = "Known"]_vars
    /\ [](\A point \in board_points :
             \A q \in board_points :
                knowledge_at(flag_neighbors(board, point), q) # knowledge_at(board, q) =>
                   /\ q \in neighbors_of(point)
                   /\ knowledge_at(board, q) = "Unknown"
                   /\ knowledge_at(flag_neighbors(board, point), q) = "Flag"
                   /\ Cardinality(not_known_unmined(point))
                         = retrieve_cell(board, point).mined_neighbor_count)

---------------------------------------------------------------------------
(* Claims about ai_game_loop.                                              *)

\* C33: if any action of the batch applied in one iteration reveals a mine
\* (its probe or chord returns more than 0), the loop stops after that
\* batch, whatever the position of the action within the batch.
C33_StopsAfterRevealedMine ==
    [][(lpc = "for" /\ moves = 0 /\ mine_revealed) => lpc' = "done"]_vars

---------------------------------------------------------------------------
(* Claims about the bounds of a board and about new_with_mines.            *)

call_size == [width |-> args.width, height |-> args.height]

\* C39: point_is_in_bounds(p) is true exactly when p's row is less than the
\* height and its column less than the width; so new_with_mines returns None
\* whenever a mine point lies off the board, and never indexes a cell
\* outside the field.
C39_PointIsInBounds ==
    /\ returned("point_is_in_bounds") =>
          /\ out[1].panic = ""
          /\ out[1].val = on_board(call_size, args.point)
    /\ returned("new_with_mines") =>
          /\ out[1].panic # panic_index
          /\ (\E k \in DOMAIN args.mines : ~on_board(call_size, args.mines[k])) =>
                 /\ out[1].panic = ""
                 /\ ~out[1].val.some

\* the cells of b whose content is Mine
mine_cells(b) == {i \in DOMAIN b.field : b.field[i].content = "Mine"}

\* the number of Mine cells is mine_count and every cell counts the mines
\* among its 8-neighbours on the board
counts_mines(b) ==
    /\ Cardinality(mine_cells(b)) = b.mine_count
    /\ \A i \in DOMAIN b.field :
          b.field[i].mined_neighbor_count =
             Cardinality({j \in mine_cells(b) :
                             b.field[j].point \in
                                clipped_neighborhood(b.size, b.field[i].point)})

\* C36: for every board made by new_with_mines or by the first probe, and
\* after any later actions, the number of cells whose content is Mine equals
\* mine_count and every cell's mined_neighbor_count equals the number of its
\* 8-neighbours whose content is Mine.
C36_CountsMines ==
    /\ (returned("new_with_mines") /\ out[1].panic = "" /\ out[1].val.some) =>
           counts_mines(out[1].val.val)
    /\ board.initialized => counts_mines(board)

---------------------------------------------------------------------------
(* Claims about the first probe of a game.                                 *)

first_probed == args.fn = "first probe" /\ pc = "idle"

\* C35: the first probe on an uninitialized board, when placement succeeds,
\* places exactly mine_count mines, none within Chebyshev distance 2 of the
\* probed cell, marks the board initialized and returns 0; later probes
\* never place mines again.
C35_FirstProbePlacesMines ==
    /\ [](first_probed =>
            /\ Cardinality(mine_cells(board)) = board.mine_count
            /\ \A i \in mine_cells(board) :
                  distance(args.point, board.field[i].point) > 2
            /\ board.initialized
            /\ out = <<0>>)
    /\ [][board.initialized =>
            \A i \in DOMAIN board.field :
               board'.field[i].content = board.field[i].content]_vars

\* the first probe has laid as many mines as the bounds allow and has
\* revealed more than the probed cell
C35_Witness ==
    /\ first_probed
    /\ board.mine_count = MaxMines
    /\ Cardinality(mine_cells(board)) = MaxMines
    /\ Cardinality({i \in DOMAIN board.field : board.field[i].knowledge = "Known"}) > 1

---------------------------------------------------------------------------
(* Claims about the agent in a game.                                       *)

\* the ways generate_move fails
generate_move_panics == {panic_overflow, panic_none, panic_no_moves, panic_no_best}

\* a game that is not won, on a board of a game: the mines laid by
\* new_with_mines and the agent's first move, Click(0,0), applied
in_game == board \in opened_boards /\ ~is_won(board)

\* C38: for every board state reachable in a game that is not yet won,
\* generate_move returns an action without failing: the first move is
\* Click(0,0), queued moves are returned one per call, and whenever the
\* queue is empty generate_next_moves yields at least one action.
C38_GenerateMoveReturns ==
    in_game =>
        /\ apc \notin generate_move_panics
        /\ (calls = 1 /\ apc = "popped") => surfaced = Some(Click(<<0, 0>>))
        /\ apc = "pop" => move_queue # <<>>

=============================================================================
